---------------------------- MODULE Spec2Model ----------------------------
(***************************************************************************)
(* DS-MCP-FLOWISE: the extraction script (bracket scanner, segmenter,      *)
(* field extractor, store writer) and the server (startup, request        *)
(* handlers, type resolver, flow validator), as state machines.  Each      *)
(* subsystem has its own specification; a variable a specification does    *)
(* not use keeps its initial value.                                        *)
(***************************************************************************)
EXTENDS Integers, Sequences, FiniteSets, TLC

VARIABLES
  scan,       \* the Structural Scanner / Segmenter call in flight
  parse,      \* the Field Extractor (parseInputObject) call in flight
  nodes,      \* main(): the ParsedNode batch handed to insertNode so far
  db,         \* the sql.js database the extraction script fills
  resolver,   \* the Type-Compatibility Resolver call in flight
  flow,       \* the validateFlow call in flight
  server      \* the serving process: its startup and the request answered last

vars == <<scan, parse, nodes, db, resolver, flow, server>>

Idle == [op |-> "idle"]

Range(s) == {s[i] : i \in 1..Len(s)}

(***************************************************************************)
(* TYPE-COMPATIBILITY RESOLVER                                             *)
(***************************************************************************)


\* Object.entries(TYPE_HIERARCHY): the table's <<key, chain>> pairs in
\* declaration order.
TypeEntries ==
  <<
    <<"ChatOpenAI", <<"ChatOpenAI", "BaseChatModel", "BaseLanguageModel", "Runnable">>>>,
    <<"ChatAnthropic", <<"ChatAnthropic", "BaseChatModel", "BaseLanguageModel", "Runnable">>>>,
    <<"AzureChatOpenAI", <<"AzureChatOpenAI", "BaseChatModel", "BaseLanguageModel", "Runnable">>>>,
    <<"ChatGoogleGenerativeAI", <<"ChatGoogleGenerativeAI", "BaseChatModel", "BaseLanguageModel", "Runnable">>>>,
    <<"ChatOllama", <<"ChatOllama", "BaseChatModel", "BaseLanguageModel", "Runnable">>>>,
    <<"ChatMistralAI", <<"ChatMistralAI", "BaseChatModel", "BaseLanguageModel", "Runnable">>>>,
    <<"ChatTogetherAI", <<"ChatTogetherAI", "BaseChatModel", "BaseLanguageModel", "Runnable">>>>,
    <<"ChatGroq", <<"ChatGroq", "BaseChatModel", "BaseLanguageModel", "Runnable">>>>,
    <<"ChatCohere", <<"ChatCohere", "BaseChatModel", "BaseLanguageModel", "Runnable">>>>,
    <<"ChatHuggingFace", <<"ChatHuggingFace", "BaseChatModel", "BaseLanguageModel", "Runnable">>>>,
    <<"AwsChatBedrock", <<"AwsChatBedrock", "BaseChatModel", "BaseLanguageModel", "Runnable">>>>,
    <<"ChatLocalAI", <<"ChatLocalAI", "BaseChatModel", "BaseLanguageModel", "Runnable">>>>,
    <<"OpenAI", <<"OpenAI", "BaseLLM", "BaseLanguageModel", "Runnable">>>>,
    <<"AzureOpenAI", <<"AzureOpenAI", "BaseLLM", "BaseLanguageModel", "Runnable">>>>,
    <<"Ollama", <<"Ollama", "BaseLLM", "BaseLanguageModel", "Runnable">>>>,
    <<"Replicate", <<"Replicate", "BaseLLM", "BaseLanguageModel", "Runnable">>>>,
    <<"BufferMemory", <<"BufferMemory", "BaseChatMemory", "BaseMemory">>>>,
    <<"BufferWindowMemory", <<"BufferWindowMemory", "BaseChatMemory", "BaseMemory">>>>,
    <<"ConversationSummaryMemory", <<"ConversationSummaryMemory", "BaseChatMemory", "BaseMemory">>>>,
    <<"ConversationSummaryBufferMemory", <<"ConversationSummaryBufferMemory", "BaseChatMemory", "BaseMemory">>>>,
    <<"ZepMemory", <<"ZepMemory", "BaseChatMemory", "BaseMemory">>>>,
    <<"RedisBackedChatMemory", <<"RedisBackedChatMemory", "BaseChatMemory", "BaseMemory">>>>,
    <<"DynamoDBChatMemory", <<"DynamoDBChatMemory", "BaseChatMemory", "BaseMemory">>>>,
    <<"MotorheadMemory", <<"MotorheadMemory", "BaseChatMemory", "BaseMemory">>>>,
    <<"UpstashRedisBackedChatMemory", <<"UpstashRedisBackedChatMemory", "BaseChatMemory", "BaseMemory">>>>,
    <<"MongoDBChatMemory", <<"MongoDBChatMemory", "BaseChatMemory", "BaseMemory">>>>,
    <<"OpenAIEmbeddings", <<"OpenAIEmbeddings", "Embeddings">>>>,
    <<"AzureOpenAIEmbeddings", <<"AzureOpenAIEmbeddings", "Embeddings">>>>,
    <<"CohereEmbeddings", <<"CohereEmbeddings", "Embeddings">>>>,
    <<"GoogleGenerativeAIEmbeddings", <<"GoogleGenerativeAIEmbeddings", "Embeddings">>>>,
    <<"HuggingFaceInferenceEmbeddings", <<"HuggingFaceInferenceEmbeddings", "Embeddings">>>>,
    <<"OllamaEmbeddings", <<"OllamaEmbeddings", "Embeddings">>>>,
    <<"VoyageAIEmbeddings", <<"VoyageAIEmbeddings", "Embeddings">>>>,
    <<"MistralAIEmbeddings", <<"MistralAIEmbeddings", "Embeddings">>>>,
    <<"TogetherAIEmbeddings", <<"TogetherAIEmbeddings", "Embeddings">>>>,
    <<"Pinecone", <<"Pinecone", "VectorStore", "VectorStoreRetriever", "BaseRetriever">>>>,
    <<"Chroma", <<"Chroma", "VectorStore", "VectorStoreRetriever", "BaseRetriever">>>>,
    <<"Qdrant", <<"Qdrant", "VectorStore", "VectorStoreRetriever", "BaseRetriever">>>>,
    <<"Milvus", <<"Milvus", "VectorStore", "VectorStoreRetriever", "BaseRetriever">>>>,
    <<"Weaviate", <<"Weaviate", "VectorStore", "VectorStoreRetriever", "BaseRetriever">>>>,
    <<"Supabase", <<"Supabase", "VectorStore", "VectorStoreRetriever", "BaseRetriever">>>>,
    <<"Postgres", <<"Postgres", "VectorStore", "VectorStoreRetriever", "BaseRetriever">>>>,
    <<"Redis", <<"Redis", "VectorStore", "VectorStoreRetriever", "BaseRetriever">>>>,
    <<"Faiss", <<"Faiss", "VectorStore", "VectorStoreRetriever", "BaseRetriever">>>>,
    <<"InMemoryVectorStore", <<"InMemoryVectorStore", "VectorStore", "VectorStoreRetriever", "BaseRetriever">>>>,
    <<"MongoDBAtlas", <<"MongoDBAtlas", "VectorStore", "VectorStoreRetriever", "BaseRetriever">>>>,
    <<"Elasticsearch", <<"Elasticsearch", "VectorStore", "VectorStoreRetriever", "BaseRetriever">>>>,
    <<"OpenSearch", <<"OpenSearch", "VectorStore", "VectorStoreRetriever", "BaseRetriever">>>>,
    <<"Upstash", <<"Upstash", "VectorStore", "VectorStoreRetriever", "BaseRetriever">>>>,
    <<"Vectara", <<"Vectara", "VectorStore", "VectorStoreRetriever", "BaseRetriever">>>>,
    <<"SingleStore", <<"SingleStore", "VectorStore", "VectorStoreRetriever", "BaseRetriever">>>>,
    <<"PdfLoader", <<"PdfLoader", "Document">>>>,
    <<"TextLoader", <<"TextLoader", "Document">>>>,
    <<"JsonLoader", <<"JsonLoader", "Document">>>>,
    <<"CsvLoader", <<"CsvLoader", "Document">>>>,
    <<"DocxLoader", <<"DocxLoader", "Document">>>>,
    <<"CheerioWebScraper", <<"CheerioWebScraper", "Document">>>>,
    <<"PlaywrightWebScraper", <<"PlaywrightWebScraper", "Document">>>>,
    <<"PuppeteerWebScraper", <<"PuppeteerWebScraper", "Document">>>>,
    <<"GithubRepoLoader", <<"GithubRepoLoader", "Document">>>>,
    <<"NotionLoader", <<"NotionLoader", "Document">>>>,
    <<"ConfluenceLoader", <<"ConfluenceLoader", "Document">>>>,
    <<"S3Loader", <<"S3Loader", "Document">>>>,
    <<"FireCrawlLoader", <<"FireCrawlLoader", "Document">>>>,
    <<"RecursiveCharacterTextSplitter", <<"RecursiveCharacterTextSplitter", "TextSplitter">>>>,
    <<"CharacterTextSplitter", <<"CharacterTextSplitter", "TextSplitter">>>>,
    <<"TokenTextSplitter", <<"TokenTextSplitter", "TextSplitter">>>>,
    <<"MarkdownTextSplitter", <<"MarkdownTextSplitter", "TextSplitter">>>>,
    <<"HtmlToMarkdownTextSplitter", <<"HtmlToMarkdownTextSplitter", "TextSplitter">>>>,
    <<"CodeTextSplitter", <<"CodeTextSplitter", "TextSplitter">>>>,
    <<"Calculator", <<"Calculator", "Tool", "StructuredTool", "BaseTool">>>>,
    <<"GoogleSearchAPI", <<"GoogleSearchAPI", "Tool", "StructuredTool", "BaseTool">>>>,
    <<"SerpAPI", <<"SerpAPI", "Tool", "StructuredTool", "BaseTool">>>>,
    <<"BraveSearchAPI", <<"BraveSearchAPI", "Tool", "StructuredTool", "BaseTool">>>>,
    <<"RequestsGet", <<"RequestsGet", "Tool", "StructuredTool", "BaseTool">>>>,
    <<"RequestsPost", <<"RequestsPost", "Tool", "StructuredTool", "BaseTool">>>>,
    <<"Retriever", <<"Retriever", "Tool", "StructuredTool", "BaseTool">>>>,
    <<"ChainTool", <<"ChainTool", "Tool", "StructuredTool", "BaseTool">>>>,
    <<"CustomTool", <<"CustomTool", "Tool", "StructuredTool", "BaseTool">>>>,
    <<"OpenAPIToolkit", <<"OpenAPIToolkit", "Tool", "StructuredTool", "BaseTool">>>>,
    <<"ReadFile", <<"ReadFile", "Tool", "StructuredTool", "BaseTool">>>>,
    <<"WriteFile", <<"WriteFile", "Tool", "StructuredTool", "BaseTool">>>>,
    <<"ConversationChain", <<"ConversationChain", "BaseChain", "Runnable">>>>,
    <<"LLMChain", <<"LLMChain", "BaseChain", "Runnable">>>>,
    <<"ConversationalRetrievalQAChain", <<"ConversationalRetrievalQAChain", "BaseChain", "Runnable">>>>,
    <<"RetrievalQAChain", <<"RetrievalQAChain", "BaseChain", "Runnable">>>>,
    <<"MultiPromptChain", <<"MultiPromptChain", "BaseChain", "Runnable">>>>,
    <<"VectorDBQAChain", <<"VectorDBQAChain", "BaseChain", "Runnable">>>>,
    <<"SqlDatabaseChain", <<"SqlDatabaseChain", "BaseChain", "Runnable">>>>,
    <<"APIChain", <<"APIChain", "BaseChain", "Runnable">>>>,
    <<"OpenAIFunctionsAgent", <<"OpenAIFunctionsAgent", "AgentExecutor", "BaseChain", "Runnable">>>>,
    <<"ConversationalAgent", <<"ConversationalAgent", "AgentExecutor", "BaseChain", "Runnable">>>>,
    <<"MRKLAgent", <<"MRKLAgent", "AgentExecutor", "BaseChain", "Runnable">>>>,
    <<"OpenAIAssistant", <<"OpenAIAssistant", "AgentExecutor", "BaseChain", "Runnable">>>>,
    <<"ToolAgent", <<"ToolAgent", "AgentExecutor", "BaseChain", "Runnable">>>>,
    <<"CSVAgent", <<"CSVAgent", "AgentExecutor", "BaseChain", "Runnable">>>>,
    <<"AutoGPT", <<"AutoGPT", "AgentExecutor", "BaseChain", "Runnable">>>>,
    <<"BabyAGI", <<"BabyAGI", "AgentExecutor", "BaseChain", "Runnable">>>>,
    <<"Agent", <<"Agent">>>>,
    <<"LLMNode", <<"LLMNode">>>>,
    <<"Condition", <<"Condition">>>>,
    <<"Start", <<"Start">>>>,
    <<"End", <<"End">>>>,
    <<"Loop", <<"Loop">>>>,
    <<"ConditionAgent", <<"ConditionAgent">>>>,
    <<"CustomFunction", <<"CustomFunction">>>>,
    <<"IterationAgent", <<"IterationAgent">>>>,
    <<"ExecuteFlow", <<"ExecuteFlow">>>>,
    <<"HumanInput", <<"HumanInput">>>>,
    <<"PromptTemplate", <<"PromptTemplate", "BasePromptTemplate">>>>,
    <<"ChatPromptTemplate", <<"ChatPromptTemplate", "BasePromptTemplate">>>>,
    <<"FewShotPromptTemplate", <<"FewShotPromptTemplate", "BasePromptTemplate">>>>,
    <<"StructuredOutputParser", <<"StructuredOutputParser", "BaseOutputParser">>>>,
    <<"CustomListOutputParser", <<"CustomListOutputParser", "BaseOutputParser">>>>,
    <<"CSVOutputParser", <<"CSVOutputParser", "BaseOutputParser">>>>,
    <<"OpenAIModerationChain", <<"OpenAIModerationChain", "Moderation">>>>,
    <<"SimplePromptModeration", <<"SimplePromptModeration", "Moderation">>>>,
    <<"InMemoryCache", <<"InMemoryCache", "BaseCache">>>>,
    <<"RedisCache", <<"RedisCache", "BaseCache">>>>,
    <<"MomentoCache", <<"MomentoCache", "BaseCache">>>>,
    <<"UpstashRedisCache", <<"UpstashRedisCache", "BaseCache">>>>
  >>

TypeKeys == [i \in 1..Len(TypeEntries) |-> TypeEntries[i][1]]

TYPE_HIERARCHY ==
  [type \in Range(TypeKeys) |->
     TypeEntries[CHOOSE i \in 1..Len(TypeEntries) : TypeEntries[i][1] = type][2]]

\* TYPE_HIERARCHY is a plain object literal, so TYPE_HIERARCHY[k] also finds
\* what Object.prototype defines; none of those values is an array.
ObjectPrototypeKeys ==
  {"constructor", "toString", "valueOf", "hasOwnProperty", "__proto__"}

\* TYPE_HIERARCHY[type]: the own chain, an inherited non-array value, or
\* undefined.
HierarchyLookup(type) ==
  IF type \in DOMAIN TYPE_HIERARCHY
    THEN [kind |-> "array", items |-> TYPE_HIERARCHY[type]]
  ELSE IF type \in ObjectPrototypeKeys
    THEN [kind |-> "inherited", items |-> <<>>]
  ELSE [kind |-> "undefined", items |-> <<>>]

\* Mutant: the direct-match shortcut is dropped.
isTypeCompatible_NoDirectMatch(sourceType, targetInputType) ==
  LET sourceHierarchy == HierarchyLookup(sourceType) IN
  IF sourceHierarchy.kind = "undefined" THEN "false"
  ELSE IF sourceHierarchy.kind = "inherited" THEN "TypeError"
  ELSE IF targetInputType \in Range(sourceHierarchy.items) THEN "true"
  ELSE "false"

\* "true" / "false", or "TypeError" when sourceHierarchy.includes is not a
\* function (sourceHierarchy truthy but not an array).
isTypeCompatible(sourceType, targetInputType) ==
  IF sourceType = targetInputType THEN "true"
  ELSE LET sourceHierarchy == HierarchyLookup(sourceType) IN
       IF sourceHierarchy.kind = "undefined" THEN "false"
       ELSE IF sourceHierarchy.kind = "inherited" THEN "TypeError"
       ELSE IF targetInputType \in Range(sourceHierarchy.items) THEN "true"
       ELSE "false"

\* [...new Set(a)]: first occurrences, in order.
Dedupe(a) ==
  LET keep == {i \in 1..Len(a) : \A j \in 1..(i - 1) : a[j] # a[i]}
      nth(k) == CHOOSE i \in keep : Cardinality({j \in keep : j <= i}) = k
  IN [k \in 1..Cardinality(keep) |-> a[nth(k)]]

\* The for-loop of getCompatibleOutputTypes over Object.entries: the keys
\* whose hierarchy includes inputType, in table order, pushed after start.
CompatibleLoop(start, inputType) ==
  start \o SelectSeq(TypeKeys,
                     LAMBDA type : inputType \in Range(TYPE_HIERARCHY[type]))

\* Mutant: the result does not start with inputType itself.
getCompatibleOutputTypes_NoSelf(inputType) ==
  Dedupe(CompatibleLoop(<<>>, inputType))

getCompatibleOutputTypes(inputType) ==
  Dedupe(CompatibleLoop(<<inputType>>, inputType))

getAcceptingInputTypes(outputType) ==
  LET hierarchy == HierarchyLookup(outputType) IN
  IF hierarchy.kind = "array" THEN hierarchy.items
  ELSE IF hierarchy.kind = "inherited" THEN <<"[inherited]">>
  ELSE <<outputType>>

\* Type names a caller may pass: every name of the table, a name the table
\* does not know, and names Object.prototype defines.
TypeNames ==
  DOMAIN TYPE_HIERARCHY
  \cup UNION {Range(TYPE_HIERARCHY[k]) : k \in DOMAIN TYPE_HIERARCHY}
  \cup {"UnknownType", "constructor", "toString"}

CallIsTypeCompatible ==
  /\ resolver = Idle
  /\ \E sourceType \in TypeNames, targetInputType \in TypeNames :
       resolver' = [op |-> "isTypeCompatible", sourceType |-> sourceType,
                    targetInputType |-> targetInputType,
                    result |-> isTypeCompatible(sourceType, targetInputType)]
  /\ UNCHANGED <<scan, parse, nodes, db, flow, server>>

CallGetCompatibleOutputTypes ==
  /\ resolver = Idle
  /\ \E inputType \in TypeNames :
       resolver' = [op |-> "getCompatibleOutputTypes", inputType |-> inputType,
                    result |-> getCompatibleOutputTypes(inputType)]
  /\ UNCHANGED <<scan, parse, nodes, db, flow, server>>

CallGetAcceptingInputTypes ==
  /\ resolver = Idle
  /\ \E outputType \in TypeNames :
       resolver' = [op |-> "getAcceptingInputTypes", outputType |-> outputType,
                    result |-> getAcceptingInputTypes(outputType)]
  /\ UNCHANGED <<scan, parse, nodes, db, flow, server>>

NextTypes ==
  \/ CallIsTypeCompatible
  \/ CallGetCompatibleOutputTypes
  \/ CallGetAcceptingInputTypes

\* The chain the type table itself declares for a type (own entries only).
DeclaredChain(type) ==
  IF type \in DOMAIN TYPE_HIERARCHY THEN Range(TYPE_HIERARCHY[type]) ELSE {}

\* C4: isTypeCompatible(S, T) is true iff S = T or T is a member of the
\* chain the table declares for S; isTypeCompatible(X, X) is true for every
\* declared type X.
C4_CompatibleIffEqualOrInChain ==
  resolver.op = "isTypeCompatible" =>
    LET S == resolver.sourceType
        T == resolver.targetInputType
    IN /\ (resolver.result = "true") <=> (S = T \/ T \in DeclaredChain(S))
       /\ (S = T /\ S \in DOMAIN TYPE_HIERARCHY) => resolver.result = "true"

\* C4 witness: a declared type answered compatible with a different type of
\* its chain.
C4_Witness ==
  /\ resolver.op = "isTypeCompatible"
  /\ resolver.sourceType \in DOMAIN TYPE_HIERARCHY
  /\ resolver.sourceType # resolver.targetInputType
  /\ resolver.result = "true"

\* C5: B is listed by getCompatibleOutputTypes(A) iff isTypeCompatible(B, A)
\* holds; the list is A plus every table key whose chain contains A, without
\* duplicates.
C5_CompatibleOutputsAreReverseLookup ==
  resolver.op = "getCompatibleOutputTypes" =>
    LET A == resolver.inputType
        R == resolver.result
    IN /\ \A B \in TypeNames :
            (B \in Range(R)) <=> (isTypeCompatible(B, A) = "true")
       /\ Range(R) = {A} \cup {k \in DOMAIN TYPE_HIERARCHY : A \in DeclaredChain(k)}
       /\ Cardinality(Range(R)) = Len(R)

\* C5 witness: a reverse lookup that lists a type other than the input type.
C5_Witness ==
  /\ resolver.op = "getCompatibleOutputTypes"
  /\ \E B \in Range(resolver.result) :
       /\ B # resolver.inputType
       /\ resolver.inputType \in DeclaredChain(B)

(***************************************************************************)
(* STRUCTURAL SCANNER AND LITERAL SEGMENTER                                *)
(*                                                                         *)
(* A text is a sequence of characters, one string each ("BACKSLASH",      *)
(* "DQUOTE" and "BACKTICK" name the characters \, " and `); positions are *)
(* 0-based as in the script.                                               *)
(***************************************************************************)

MaxLen == 6

Chars == {"{", "}", "'", "DQUOTE", "BACKSLASH", "a"}

Texts == UNION {[1..n -> Chars] : n \in 0..MaxLen}

\* content[i]; undefined past either end.
CharAt(content, i) ==
  IF i >= 0 /\ i < Len(content) THEN content[i + 1] ELSE "undefined"

IsQuote(char) == char \in {"'", "DQUOTE", "BACKTICK"}

\* content.indexOf(char, from)
IndexOf(content, char, from) ==
  LET hits == {i \in from..(Len(content) - 1) : content[i + 1] = char}
  IN IF hits = {} THEN -1 ELSE CHOOSE i \in hits : \A j \in hits : i <= j

\* content.substring(from, to), 0 <= from <= to <= length
Substring(content, from, to) == SubSeq(content, from + 1, to)

\* Mutant: a backslash inside a quoted span does not skip the next character.
RECURSIVE SkipString_NoEscape(_, _, _)
SkipString_NoEscape(content, pos, quote) ==
  IF pos < Len(content) /\ CharAt(content, pos) # quote
    THEN SkipString_NoEscape(content, pos + 1, quote)
    ELSE pos

\* The inner while of findMatchingBracket: from the position after an
\* opening quote to the position of the closing quote (or past the end).
RECURSIVE SkipString(_, _, _)
SkipString(content, pos, quote) ==
  IF pos < Len(content) /\ CharAt(content, pos) # quote
    THEN SkipString(content,
                    (IF CharAt(content, pos) = "BACKSLASH" THEN pos + 1 ELSE pos) + 1,
                    quote)
    ELSE pos

\* The outer while of findMatchingBracket; yields pos and depth at its exit.
RECURSIVE ScanLoop(_, _, _, _, _)
ScanLoop(content, pos, depth, openChar, closeChar) ==
  IF pos < Len(content) /\ depth > 0
    THEN LET char == CharAt(content, pos) IN
         IF IsQuote(char)
           THEN ScanLoop(content, SkipString(content, pos + 1, char) + 1,
                         depth, openChar, closeChar)
         ELSE IF char = openChar
           THEN ScanLoop(content, pos + 1, depth + 1, openChar, closeChar)
         ELSE IF char = closeChar
           THEN ScanLoop(content, pos + 1, depth - 1, openChar, closeChar)
         ELSE ScanLoop(content, pos + 1, depth, openChar, closeChar)
    ELSE [pos |-> pos, depth |-> depth]

\* Mutant: the scan position is returned even when the depth never came
\* back to zero.
findMatchingBracket_NoSentinel(content, startPos, openChar, closeChar) ==
  ScanLoop(content, startPos, 1, openChar, closeChar).pos - 1

findMatchingBracket(content, startPos, openChar, closeChar) ==
  LET end == ScanLoop(content, startPos, 1, openChar, closeChar)
  IN IF end.depth = 0 THEN end.pos - 1 ELSE -1

\* The while of splitArrayIntoObjects.
RECURSIVE SplitLoop(_, _, _)
SplitLoop(arrayContent, pos, objects) ==
  IF pos < Len(arrayContent)
    THEN LET objStart == IndexOf(arrayContent, "{", pos) IN
         IF objStart = -1 THEN objects
         ELSE LET closePos == findMatchingBracket(arrayContent, objStart + 1,
                                                  "{", "}")
              IN IF closePos = -1 THEN objects
                 ELSE SplitLoop(arrayContent, closePos + 1,
                                Append(objects,
                                       Substring(arrayContent, objStart,
                                                 closePos + 1)))
    ELSE objects

splitArrayIntoObjects(arrayContent) == SplitLoop(arrayContent, 0, <<>>)

\* A caller hands findMatchingBracket the position right after an opening
\* bracket (extractArrayContent, extractObjectContent, splitArrayIntoObjects).
CallFindMatchingBracket ==
  /\ scan = Idle
  /\ \E content \in Texts :
       \E startPos \in 1..Len(content) :
         /\ CharAt(content, startPos - 1) = "{"
         /\ scan' = [op |-> "findMatchingBracket", content |-> content,
                     startPos |-> startPos,
                     result |-> findMatchingBracket(content, startPos, "{", "}")]
  /\ UNCHANGED <<parse, nodes, db, resolver, flow, server>>

CallSplitArrayIntoObjects ==
  /\ scan = Idle
  /\ \E arrayContent \in Texts :
       scan' = [op |-> "splitArrayIntoObjects", content |-> arrayContent,
                result |-> splitArrayIntoObjects(arrayContent)]
  /\ UNCHANGED <<parse, nodes, db, resolver, flow, server>>

NextScan ==
  \/ CallFindMatchingBracket
  \/ CallSplitArrayIntoObjects

\* ---- what a text means, read from its first character ------------------

\* The lexical state before character i: in code, inside a span opened by
\* quote q, or right after a backslash inside such a span.
RECURSIVE LexState(_, _)
LexState(content, i) ==
  IF i = 0 THEN [mode |-> "code", q |-> ""]
  ELSE LET before == LexState(content, i - 1)
           c      == CharAt(content, i - 1)
       IN IF before.mode = "code"
            THEN IF IsQuote(c) THEN [mode |-> "quoted", q |-> c] ELSE before
          ELSE IF before.mode = "escape"
            THEN [mode |-> "quoted", q |-> before.q]
          ELSE IF c = "BACKSLASH" THEN [mode |-> "escape", q |-> before.q]
          ELSE IF c = before.q THEN [mode |-> "code", q |-> ""]
          ELSE before

\* Character i is char and stands outside every quoted span.
BareAt(content, i, char) ==
  /\ i >= 0 /\ i < Len(content)
  /\ CharAt(content, i) = char
  /\ LexState(content, i).mode = "code"

\* Nesting depth gained over positions from..(to - 1).
DepthOver(content, from, to, openChar, closeChar) ==
  Cardinality({i \in from..(to - 1) : BareAt(content, i, openChar)})
  - Cardinality({i \in from..(to - 1) : BareAt(content, i, closeChar)})

QuotesTerminated(content) == LexState(content, Len(content)).mode = "code"

BracketsBalanced(content, openChar, closeChar) ==
  /\ \A p \in 0..Len(content) : DepthOver(content, 0, p, openChar, closeChar) >= 0
  /\ DepthOver(content, 0, Len(content), openChar, closeChar) = 0

WellFormed(content) ==
  QuotesTerminated(content) /\ BracketsBalanced(content, "{", "}")

\* The closing bracket of the bracket opened at startPos - 1: the first bare
\* closing bracket at which the depth opened there is back to zero.
TrueClose(content, startPos, openChar, closeChar) ==
  LET closes == {p \in startPos..(Len(content) - 1) :
                   /\ BareAt(content, p, closeChar)
                   /\ DepthOver(content, startPos, p, openChar, closeChar) = 0}
  IN IF closes = {} THEN -1 ELSE CHOOSE p \in closes : \A r \in closes : p <= r

\* The top-level object literals of an array body, in source order.
TopLevelObjects(content) ==
  LET starts == {p \in 0..(Len(content) - 1) :
                   /\ BareAt(content, p, "{")
                   /\ DepthOver(content, 0, p, "{", "}") = 0}
      nth(k) == CHOOSE p \in starts : Cardinality({r \in starts : r <= p}) = k
  IN [k \in 1..Cardinality(starts) |->
        Substring(content, nth(k), TrueClose(content, nth(k) + 1, "{", "}") + 1)]

\* C1: on a text whose quoted spans are terminated and whose bare brackets
\* balance, findMatchingBracket called right after a bare opening bracket
\* returns the index of the closing bracket that brings the depth back to
\* zero, whatever the quoted spans contain.
C1_MatchingCloseFound ==
  (/\ scan.op = "findMatchingBracket"
   /\ WellFormed(scan.content)
   /\ BareAt(scan.content, scan.startPos - 1, "{"))
  => /\ scan.result = TrueClose(scan.content, scan.startPos, "{", "}")
     /\ scan.result >= scan.startPos

\* C1 witness: the match is found across a quoted span that holds an escaped
\* delimiter.
C1_Witness ==
  /\ scan.op = "findMatchingBracket"
  /\ WellFormed(scan.content)
  /\ BareAt(scan.content, scan.startPos - 1, "{")
  /\ \E i \in scan.startPos..(scan.result - 1) :
       LexState(scan.content, i).mode = "escape"
  /\ scan.result = TrueClose(scan.content, scan.startPos, "{", "}")
  /\ scan.result >= scan.startPos

\* C2: splitArrayIntoObjects returns the top-level object literals of the
\* array body, each from its opening brace to its matching closing brace, in
\* source order, whatever filler lies between them.
C2_SplitYieldsTopLevelObjects ==
  (scan.op = "splitArrayIntoObjects" /\ WellFormed(scan.content))
  => scan.result = TopLevelObjects(scan.content)

(***************************************************************************)
(* HIERARCHICAL NORMALIZER / STORE WRITER                                  *)
(*                                                                         *)
(* A ParsedInput is [name, type, options, array, tabs]; an absent list is  *)
(* the empty sequence.  A field's name is its path in the tree (its index  *)
(* among its siblings after its parent's path), so every field of a        *)
(* Definition can be told from the others.  NULL is the empty sequence, a  *)
(* non-null key k the sequence <<k>>.                                      *)
(***************************************************************************)

\* Rows (one per Definition and per InputField) a batch may write.
MaxRows == 6

\* Options every selection field declares.
NumOptions == 2

NULL == <<>>

NodeNames == {"chatOpenAI", "agentAgentflow"}

OptionsOf(path) ==
  [k \in 1..NumOptions |-> [label |-> <<path, k>>, name |-> <<path, k>>]]

\* The assembled InputField trees with n fields, the root named path, and
\* the ordered forests with n fields whose roots are named prefix \o <<i>>.
RECURSIVE FieldsOfSize(_, _), ForestsOfSize(_, _)
FieldsOfSize(n, path) ==
  IF n = 1
    THEN {[name |-> path, type |-> "string", options |-> <<>>,
           array |-> <<>>, tabs |-> <<>>],
          [name |-> path, type |-> "options", options |-> OptionsOf(path),
           array |-> <<>>, tabs |-> <<>>]}
    ELSE UNION {
           {[name |-> path, type |-> "array", options |-> <<>>,
             array |-> kids, tabs |-> <<>>],
            [name |-> path, type |-> "tabs", options |-> <<>>,
             array |-> <<>>, tabs |-> kids]} :
           kids \in ForestsOfSize(n - 1, path)}

ForestsOfSize(n, prefix) ==
  IF n = 0 THEN {<<>>}
  ELSE UNION {
         UNION {
           {Append(front, last) :
              last \in FieldsOfSize(k, Append(prefix, Len(front)))} :
           front \in ForestsOfSize(n - k, prefix)} :
         k \in 1..n}

\* What parseNodeFile assembles besides the inputs, by Definition name.
ParsedNode(name, inputs) ==
  IF name = "agentAgentflow"
    THEN [name |-> name, label |-> "Agent", type |-> "Agent",
          category |-> "Agent Flows", baseClasses |-> <<"Agent">>,
          credential |-> FALSE,
          outputs |-> <<[name |-> name, label |-> "Agent",
                         baseClasses |-> <<<<"Agent">>>>]>>,
          inputs |-> inputs]
    ELSE [name |-> name, label |-> "ChatOpenAI", type |-> "ChatOpenAI",
          category |-> "Chat Models",
          baseClasses |-> <<"ChatOpenAI", "BaseChatModel">>,
          credential |-> TRUE,
          outputs |-> <<[name |-> name, label |-> "ChatOpenAI",
                         baseClasses |->
                           <<<<"ChatOpenAI", "BaseChatModel">>>>]>>,
          inputs |-> inputs]

RECURSIVE CountFields(_)
CountFields(inputs) ==
  IF inputs = <<>> THEN 0
  ELSE 1 + CountFields(Head(inputs).array) + CountFields(Head(inputs).tabs)
         + CountFields(Tail(inputs))

\* The forests of top-level inputs, by number of fields.
InputForests == [n \in 0..(MaxRows - 1) |-> ForestsOfSize(n, <<>>)]

RECURSIVE RowsOf(_)
RowsOf(batch) ==
  IF batch = <<>> THEN 0
  ELSE 1 + CountFields(Head(batch).inputs) + RowsOf(Tail(batch))

\* createDatabase: the schema's tables, empty.
EmptyDb ==
  [nodes |-> <<>>, node_credentials |-> <<>>, node_outputs |-> <<>>,
   node_inputs |-> <<>>, input_options |-> <<>>, categories |-> <<>>,
   last_insert_rowid |-> 0]

\* INTEGER PRIMARY KEY AUTOINCREMENT: no row is ever deleted, so the next id
\* is one more than the number of rows.
NextId(table) == Len(table) + 1

\* db.run(INSERT ...): the row gets the table's next id, which becomes the
\* connection's last_insert_rowid.
InsertRow(d, table, row) ==
  LET id == NextId(d[table])
  IN [d EXCEPT ![table] = Append(@, [row EXCEPT !.id = id]),
               !.last_insert_rowid = id]

RECURSIVE InsertOptions(_, _, _, _)
InsertOptions(d, inputId, options, optSort) ==
  IF optSort >= Len(options) THEN d
  ELSE InsertOptions(
         InsertRow(d, "input_options",
                   [id |-> 0, input_id |-> inputId,
                    option_label |-> options[optSort + 1].label,
                    option_name |-> options[optSort + 1].name,
                    sort_order |-> optSort]),
         inputId, options, optSort + 1)

\* Mutant: nested inputs are written with their parent's own parent
\* reference instead of the parent's generated id.
ChildParentId_Outer(inputId, parentId) == parentId

\* The parent reference insertInputs hands down for input.array and
\* input.tabs: the id just read back for the input.
ChildParentId(inputId, parentId) == <<inputId>>

\* Mutant: the sort key is not advanced from one input to the next.
NextSortOrder_Same(sortOrder) == sortOrder

\* sortOrder++ of insertInputs: the sort key of the input after this one.
NextSortOrder(sortOrder) == sortOrder + 1

\* insertInputs(inputs, parentId, sortStart), from the i-th input on
\* (sortOrder is sortStart + i - 1).
RECURSIVE InsertInputsFrom(_, _, _, _, _, _)
InsertInputsFrom(d, nodeName, inputs, i, parentId, sortOrder) ==
  IF i > Len(inputs) THEN d
  ELSE LET input == inputs[i]
           afterInput ==
             InsertRow(d, "node_inputs",
                       [id |-> 0, node_name |-> nodeName,
                        parent_id |-> parentId, input_name |-> input.name,
                        input_type |-> input.type, sort_order |-> sortOrder])
           inputId == afterInput.last_insert_rowid
           afterOptions ==
             IF Len(input.options) > 0
               THEN InsertOptions(afterInput, inputId, input.options, 0)
               ELSE afterInput
           afterArray ==
             IF Len(input.array) > 0
               THEN InsertInputsFrom(afterOptions, nodeName, input.array, 1,
                                     ChildParentId(inputId, parentId), 0)
               ELSE afterOptions
           afterTabs ==
             IF Len(input.tabs) > 0
               THEN InsertInputsFrom(afterArray, nodeName, input.tabs, 1,
                                     ChildParentId(inputId, parentId), 0)
               ELSE afterArray
       IN InsertInputsFrom(afterTabs, nodeName, inputs, i + 1, parentId,
                           NextSortOrder(sortOrder))

\* output.baseClasses ? output.baseClasses : node.baseClasses (the chain of
\* an output is <<chain>>, or NULL when the output declares none).
OutputChain(output, node) ==
  IF output.baseClasses = NULL THEN node.baseClasses
  ELSE output.baseClasses[1]

RECURSIVE InsertOutputs(_, _, _, _)
InsertOutputs(d, node, isAgentflow, outputSort) ==
  IF outputSort >= Len(node.outputs) THEN d
  ELSE LET output == node.outputs[outputSort + 1] IN
       InsertOutputs(
         InsertRow(d, "node_outputs",
                   [id |-> 0, node_name |-> node.name,
                    output_name |-> output.name,
                    output_label |-> output.label,
                    output_type |-> IF isAgentflow = 1 THEN NULL
                                    ELSE <<OutputChain(output, node)>>,
                    base_classes |-> OutputChain(output, node),
                    sort_order |-> outputSort]),
         node, isAgentflow, outputSort + 1)

\* nodes.name is UNIQUE: the first INSERT of insertNode throws on a name the
\* table already holds, before anything else is written.
InsertNodeThrows(d, node) ==
  \E i \in 1..Len(d.nodes) : d.nodes[i].name = node.name

\* insertNode(db, node) when its first INSERT succeeds.
insertNode(d, node) ==
  LET isAgentflow == IF node.category = "Agent Flows" THEN 1 ELSE 0
      afterNode ==
        InsertRow(d, "nodes",
                  [id |-> 0, name |-> node.name, label |-> node.label,
                   type |-> node.type, category |-> node.category,
                   base_classes |-> node.baseClasses,
                   is_agentflow |-> isAgentflow])
      afterCredential ==
        IF node.credential
          THEN InsertRow(afterNode, "node_credentials",
                         [id |-> 0, node_name |-> node.name])
          ELSE afterNode
      afterOutputs == InsertOutputs(afterCredential, node, isAgentflow, 0)
  IN InsertInputsFrom(afterOutputs, node.name, node.inputs, 1, NULL, 0)

\* Mutant: a failed write discards what the batch has written so far.
CaughtInsertError_Reset(d, node) == EmptyDb

\* The store after insertNode threw on its first INSERT and main() caught
\* the error: nothing of the node was written, nothing else is touched.
CaughtInsertError(d, node) == d

\* The category a node file declares: the one its Definition has in
\* Flowise, or another.
CategoriesOf(name) == {ParsedNode(name, <<>>).category, "Utilities"}

\* The node loop of main() is not through yet.
InNodeLoop == IF db = Idle THEN TRUE ELSE db.categories = <<>>

\* main(): one turn of the loop over the extracted nodes whose insertNode
\* returns normally.  The batch is through before the server opens the store.
InsertNodeWritten ==
  /\ server = Idle
  /\ InNodeLoop
  /\ nodes # <<>> \/ db = Idle
  /\ \E name \in NodeNames, n \in 0..(MaxRows - 1 - RowsOf(nodes)) :
       \E inputs \in InputForests[n], category \in CategoriesOf(name) :
         LET node == [ParsedNode(name, inputs) EXCEPT !.category = category]
             d    == IF db = Idle THEN EmptyDb ELSE db
         IN /\ ~InsertNodeThrows(d, node)
            /\ nodes' = Append(nodes, node)
            /\ db' = insertNode(d, node)
  /\ UNCHANGED <<scan, parse, resolver, flow, server>>

\* main(): one turn of the loop whose insertNode throws; the catch logs the
\* error and the loop goes on.
InsertNodeFailed ==
  /\ server = Idle
  /\ InNodeLoop
  /\ nodes # <<>>
  /\ \E name \in NodeNames, n \in 0..(MaxRows - 1 - RowsOf(nodes)) :
       \E inputs \in InputForests[n], category \in CategoriesOf(name) :
         LET node == [ParsedNode(name, inputs) EXCEPT !.category = category]
         IN /\ InsertNodeThrows(db, node)
            /\ nodes' = Append(nodes, node)
            /\ db' = CaughtInsertError(db, node)
  /\ UNCHANGED <<scan, parse, resolver, flow, server>>

\* The categories Set of main(): the category of every parsed node, in the
\* order of first occurrence.
CategorySet(parsed) ==
  LET firsts == SelectSeq([i \in 1..Len(parsed) |-> i],
                          LAMBDA i : \A j \in 1..(i - 1) :
                                       parsed[j].category # parsed[i].category)
  IN [k \in 1..Len(firsts) |-> parsed[firsts[k]].category]

\* INSERT INTO categories (name) and UPDATE categories SET node_count, for
\* the k-th category of the Set on.
RECURSIVE UpdateCategoryCounts(_, _, _)
UpdateCategoryCounts(d, categories, k) ==
  IF k > Len(categories) THEN d
  ELSE UpdateCategoryCounts(
         InsertRow(d, "categories",
                   [id |-> 0, name |-> categories[k],
                    node_count |->
                      Cardinality({n \in 1..Len(d.nodes) :
                                     d.nodes[n].category = categories[k]})]),
         categories, k + 1)

\* main(): after the node loop the categories are written and the store is
\* saved.
WriteCategories ==
  /\ server = Idle
  /\ db # Idle
  /\ db.categories = <<>>
  /\ db' = UpdateCategoryCounts(db, CategorySet(nodes), 1)
  /\ UNCHANGED <<scan, parse, nodes, resolver, flow, server>>

NextStore ==
  \/ InsertNodeWritten
  \/ InsertNodeFailed
  \/ WriteCategories

\* ---- the store against the assembled trees ----------------------------

\* Every InputField of a forest, at any depth.
RECURSIVE AllFields(_)
AllFields(inputs) ==
  IF inputs = <<>> THEN {}
  ELSE {Head(inputs)} \cup AllFields(Head(inputs).array)
         \cup AllFields(Head(inputs).tabs) \cup AllFields(Tail(inputs))

\* The i-th Definition of the batch is the first of its name, the one whose
\* insertNode did not throw.
Written(i) == \A j \in 1..(i - 1) : nodes[j].name # nodes[i].name

InputRows(name) == {r \in Range(db.node_inputs) : r.node_name = name}

OptionRows(inputId) == {o \in Range(db.input_options) : o.input_id = inputId}

\* A field's index among its siblings and its parent's name, read off its
\* path.
SiblingIndex(field) == field.name[Len(field.name)]
ParentName(field) == SubSeq(field.name, 1, Len(field.name) - 1)

\* C3: a written Definition has one node_inputs row per InputField of its
\* tree; a top-level field's row has parent_id NULL, a nested field's row
\* has the generated id of its own parent's row; sort_order is the field's
\* index among its siblings (from 0 under every parent); every Option row
\* references the generated id of its field, with sort_order its index in
\* the field's option list.
C3_RowsMirrorInputTree ==
  db # Idle =>
    \A i \in 1..Len(nodes) :
      Written(i) =>
        LET fields == AllFields(nodes[i].inputs)
            rows   == InputRows(nodes[i].name)
        IN /\ Cardinality(rows) = Cardinality(fields)
           /\ \A f \in fields :
                \E r \in rows :
                  /\ r.input_name = f.name
                  /\ r.input_type = f.type
                  /\ r.sort_order = SiblingIndex(f)
                  /\ IF Len(f.name) = 1
                       THEN r.parent_id = NULL
                       ELSE \E p \in rows : /\ p.input_name = ParentName(f)
                                             /\ r.parent_id = <<p.id>>
                  /\ Cardinality(OptionRows(r.id)) = Len(f.options)
                  /\ \A k \in 1..Len(f.options) :
                       \E o \in OptionRows(r.id) :
                         /\ o.option_name = f.options[k].name
                         /\ o.sort_order = k - 1
           /\ \A o \in Range(db.input_options) :
                \E r \in Range(db.node_inputs) : o.input_id = r.id

\* C3 witness: a written Definition with 2 top-level fields, one of them an
\* array field with 3 children: 2 rows with parent_id NULL at sort_order 0
\* and 1, and 3 rows under the array field's id at sort_order 0, 1 and 2.
C3_Witness ==
  /\ db # Idle
  /\ \E i \in 1..Len(nodes) :
       /\ Written(i)
       /\ Len(nodes[i].inputs) = 2
       /\ \E a \in InputRows(nodes[i].name) :
            /\ a.input_type = "array"
            /\ a.parent_id = NULL
            /\ {r.sort_order : r \in {x \in InputRows(nodes[i].name) :
                                         x.parent_id = NULL}} = {0, 1}
            /\ Cardinality({x \in InputRows(nodes[i].name) :
                              x.parent_id = <<a.id>>}) = 3
            /\ {r.sort_order : r \in {x \in InputRows(nodes[i].name) :
                                         x.parent_id = <<a.id>>}} = {0, 1, 2}

(***************************************************************************)
(* FIELD EXTRACTOR                                                         *)
(*                                                                         *)
(* An object-literal span is a sequence of lexical tokens: a key or a     *)
(* value word is one token, punctuation and quote marks are one token     *)
(* each, and white space is dropped (every pattern of the script allows   *)
(* \s* between tokens).  A quoted string value is the sequence of tokens  *)
(* between its quote marks; <<>> stands for null, undefined, '' and a     *)
(* deleted property alike (the script tests all of them with !x).         *)
(***************************************************************************)

MaxKids == 2

Absent == <<>>

\* Keys whose values the generated literals may carry besides label, name
\* and type.
ExtraKeys == {"rows", "placeholder", "generateInstruction",
              "generateDocStoreDescription", "hideCodeExecute",
              "description", "optional"}

FieldTypes == {"array", "tabs", "string", "options"}

ContainerKeys == {"array", "tabs", "options"}

\* parseFloat of a numeric token
parseFloat(token) == CASE token = "4" -> 4 [] token = "0" -> 0

NumberTokens == {"4", "0"}

\* ---- the literals handed to the extractor -------------------------------

\* ", key: value" as it is written in a node source file; a description
\* names the field it is written for, optional is true on the outer field
\* and false on a child.
PropText(key, owner) ==
  CASE key = "none" -> <<>>
    [] key = "description" ->
         <<",", "description", ":", "'", "about", owner, "'">>
    [] key = "optional" ->
         <<",", "optional", ":", IF owner = "x" THEN "true" ELSE "false">>
    [] key = "rows" -> <<",", "rows", ":", "4">>
    [] key = "options" ->
         <<",", "options", ":", "[", "{", "label", ":", "'", "O", "'", ",",
           "name", ":", "'", "o", "'", "}", "]">>
    [] key = "placeholder" ->
         <<",", key, ":", "'", key \o "Text", "'">>
    [] OTHER -> <<",", key, ":", "true">>

LabelText(withLabel, label) ==
  IF withLabel THEN <<"label", ":", "'", label, "'", ",">> ELSE <<>>

\* { label: 'Ci', name: 'ci', type: 'string', extra }
KidText(i, extra, withLabel) ==
  <<"{">> \o LabelText(withLabel, "C" \o ToString(i))
    \o <<"name", ":", "'", "c" \o ToString(i), "'", ",",
         "type", ":", "'", "string", "'">>
    \o PropText(extra, "c" \o ToString(i)) \o <<"}">>

RECURSIVE KidsText(_, _, _)
KidsText(kids, i, withLabel) ==
  IF i > Len(kids) THEN <<>>
  ELSE (IF i > 1 THEN <<",">> ELSE <<>>)
         \o KidText(i, kids[i], withLabel)
         \o KidsText(kids, i + 1, withLabel)

\* { label: 'X', name: 'x', type: T, extra, container: [ kids ], extra }
LiteralText(lit) ==
  <<"{">> \o LabelText(lit.withLabel, "X")
    \o <<"name", ":", "'", "x", "'", ",", "type", ":", "'", lit.type, "'">>
    \o (IF lit.extraFirst THEN PropText(lit.extra, "x") ELSE <<>>)
    \o (IF lit.container = "none" THEN <<>>
        ELSE <<",", lit.container, ":", "[">>
               \o KidsText(lit.kids, 1, lit.withLabel) \o <<"]">>)
    \o (IF lit.extraFirst THEN <<>> ELSE PropText(lit.extra, "x"))
    \o <<"}">>

\* A child span carries one of the extra keys, an option list of its own, or
\* nothing besides label, name and type.
KidLists ==
  UNION {[1..n -> ExtraKeys \cup {"none", "options"}] : n \in 0..MaxKids}

Literals ==
  {lit \in [type : FieldTypes, extra : ExtraKeys \cup {"none"},
            extraFirst : BOOLEAN, withLabel : BOOLEAN,
            container : ContainerKeys \cup {"none"}, kids : KidLists] :
     /\ lit.container = "none" => lit.kids = <<>>
     /\ (lit.extra = "none" \/ lit.container = "none") => lit.extraFirst}

\* ---- value extraction utilities -----------------------------------------

\* propertyName\s*[:=]\s* at token i
KeyAt(content, i, propertyName) ==
  /\ CharAt(content, i) = propertyName
  /\ CharAt(content, i + 1) \in {":", "="}

\* Position of the first quote mark at or after from, or -1.
QuoteFrom(content, from) ==
  LET hits == {j \in from..(Len(content) - 1) : IsQuote(CharAt(content, j))}
  IN IF hits = {} THEN -1 ELSE CHOOSE j \in hits : \A k \in hits : j <= k

FirstOf(hits) ==
  IF hits = {} THEN -1 ELSE CHOOSE i \in hits : \A j \in hits : i <= j

\* Mutant: the last occurrence of the key gives the value.
extractStringValue_Last(content, propertyName) ==
  LET hits == {i \in 0..(Len(content) - 1) :
                 /\ KeyAt(content, i, propertyName)
                 /\ IsQuote(CharAt(content, i + 2))
                 /\ QuoteFrom(content, i + 3) > i + 3}
      last == IF hits = {} THEN -1
              ELSE CHOOSE h \in hits : \A j \in hits : j <= h
  IN IF last = -1 THEN Absent
     ELSE Substring(content, last + 3, QuoteFrom(content, last + 3))

\* key [:=] quote ([^quotes]+) quote, leftmost match
extractStringValue(content, propertyName) ==
  LET i == FirstOf({i \in 0..(Len(content) - 1) :
                      /\ KeyAt(content, i, propertyName)
                      /\ IsQuote(CharAt(content, i + 2))
                      /\ QuoteFrom(content, i + 3) > i + 3})
  IN IF i = -1 THEN Absent
     ELSE Substring(content, i + 3, QuoteFrom(content, i + 3))

\* key [:=] (true|false), leftmost match; <<>> for null
extractBooleanValue(content, propertyName) ==
  LET i == FirstOf({i \in 0..(Len(content) - 1) :
                      /\ KeyAt(content, i, propertyName)
                      /\ CharAt(content, i + 2) \in {"true", "false"}})
  IN IF i = -1 THEN Absent ELSE <<CharAt(content, i + 2) = "true">>

\* key [:=] ([\d.]+), leftmost match; <<>> for null
extractNumberValue(content, propertyName) ==
  LET i == FirstOf({i \in 0..(Len(content) - 1) :
                      /\ KeyAt(content, i, propertyName)
                      /\ CharAt(content, i + 2) \in NumberTokens})
  IN IF i = -1 THEN Absent ELSE <<parseFloat(CharAt(content, i + 2))>>

\* objContent.match(/key\s*:\s*\[/): index of the leftmost match or -1
MatchArrayKey(content, key) ==
  FirstOf({i \in 0..(Len(content) - 1) :
             /\ CharAt(content, i) = key
             /\ CharAt(content, i + 1) = ":"
             /\ CharAt(content, i + 2) = "["})

\* <<content>> of the array opened at or after startPos, <<>> for null
extractArrayContent(content, startPos) ==
  LET openPos == IndexOf(content, "[", startPos) IN
  IF openPos = -1 THEN Absent
  ELSE LET closePos == findMatchingBracket(content, openPos + 1, "[", "]")
       IN IF closePos = -1 THEN Absent
          ELSE <<Substring(content, openPos + 1, closePos)>>

\* ---- parseInputObject ---------------------------------------------------

ParsedNull == [isNull |-> TRUE]

\* One entry of input.options
ParsedOption(opt) ==
  [label       |-> extractStringValue(opt, "label"),
   name        |-> extractStringValue(opt, "name"),
   description |-> extractStringValue(opt, "description")]

\* Mutant: every option span becomes an Option.
KeepOption_All(o) == TRUE

\* .filter(o => o.label && o.name)
KeepOption(o) == o.label # Absent /\ o.name # Absent

\* Mutant: only array fields are kept from owning an option list.
OwnsOptions_NotArray(type) == type # <<"array">>

\* input.type !== 'array' && input.type !== 'tabs'
OwnsOptions(type) == type # <<"array">> /\ type # <<"tabs">>

\* delete input.<property> inside the nested-array branch
DiscardLeafOnly(isArrayWithList, value) ==
  IF isArrayWithList THEN Absent ELSE value

RECURSIVE parseInputObject(_)
parseInputObject(objContent) ==
  LET label == extractStringValue(objContent, "label")
      name  == extractStringValue(objContent, "name")
      type  == extractStringValue(objContent, "type")
  IN
  IF name = Absent \/ type = Absent THEN ParsedNull
  ELSE
    LET rows         == extractNumberValue(objContent, "rows")
        tabsMatch    == MatchArrayKey(objContent, "tabs")
        arrayMatch   == MatchArrayKey(objContent, "array")
        optionsMatch == MatchArrayKey(objContent, "options")
        inTabs       == tabsMatch # -1 /\ type = <<"tabs">>
        inArray      == arrayMatch # -1 /\ type = <<"array">>
        inOptions    == optionsMatch # -1 /\ OwnsOptions(type)
        Children(matchIndex) ==
          LET result == extractArrayContent(objContent, matchIndex) IN
          IF result = Absent THEN Absent
          ELSE LET objects == splitArrayIntoObjects(result[1])
                   parsed  == [k \in 1..Len(objects) |->
                                 parseInputObject(objects[k])]
               IN <<SelectSeq(parsed, LAMBDA p : ~p.isNull)>>
        Options ==
          LET result == extractArrayContent(objContent, optionsMatch) IN
          IF result = Absent THEN Absent
          ELSE LET objects == splitArrayIntoObjects(result[1])
                   parsed  == [k \in 1..Len(objects) |->
                                 ParsedOption(objects[k])]
               IN <<SelectSeq(parsed, KeepOption)>>
    IN
    [isNull      |-> FALSE,
     label       |-> label,
     name        |-> name,
     type        |-> type,
     description |-> extractStringValue(objContent, "description"),
     optional    |-> extractBooleanValue(objContent, "optional"),
     placeholder |->
       DiscardLeafOnly(inArray, extractStringValue(objContent, "placeholder")),
     rows        |->
       DiscardLeafOnly(inArray, IF rows # Absent /\ rows # <<0>>
                                  THEN rows ELSE Absent),
     generateInstruction |->
       DiscardLeafOnly(inArray,
                       extractBooleanValue(objContent, "generateInstruction")),
     generateDocStoreDescription |->
       DiscardLeafOnly(inArray,
                       extractBooleanValue(objContent,
                                           "generateDocStoreDescription")),
     hideCodeExecute |->
       DiscardLeafOnly(inArray,
                       extractBooleanValue(objContent, "hideCodeExecute")),
     tabs        |-> IF inTabs THEN Children(tabsMatch) ELSE Absent,
     array       |-> IF inArray THEN Children(arrayMatch) ELSE Absent,
     options     |-> IF inOptions THEN Options ELSE Absent]

\* parseNodeFile hands every top-level object of this.inputs to
\* parseInputObject.
CallParseInputObject ==
  /\ parse = Idle
  /\ \E lit \in Literals :
       LET objContent == LiteralText(lit) IN
       parse' = [op |-> "parseInputObject", literal |-> lit,
                 objContent |-> objContent,
                 result |-> parseInputObject(objContent)]
  /\ UNCHANGED <<scan, nodes, db, resolver, flow, server>>

NextParse ==
  \/ CallParseInputObject

LeafOnlyKeys == {"rows", "placeholder", "generateInstruction",
                 "generateDocStoreDescription", "hideCodeExecute"}

\* The leaf-only properties a parsed field carries.
LeafOnlyCarried(field) ==
  {k \in LeafOnlyKeys :
     CASE k = "rows" -> field.rows # Absent
       [] k = "placeholder" -> field.placeholder # Absent
       [] k = "generateInstruction" -> field.generateInstruction # Absent
       [] k = "generateDocStoreDescription" ->
            field.generateDocStoreDescription # Absent
       [] k = "hideCodeExecute" -> field.hideCodeExecute # Absent}

\* C8: whenever parseInputObject builds a field whose type is 'array', the
\* field carries none of rows, placeholder, generateInstruction,
\* generateDocStoreDescription, hideCodeExecute, whatever values for those
\* keys occur in its span; a child of the array keeps its own values.
\* Violated: the deletes run only when the span also holds "array: [".
C8_ArrayFieldCarriesNoLeafOnlyKeys ==
  (parse # Idle /\ ~parse.result.isNull /\ parse.result.type = <<"array">>)
    => /\ LeafOnlyCarried(parse.result) = {}
       /\ parse.result.array # Absent =>
            \A k \in 1..Len(parse.result.array[1]) :
              LET kid == parse.literal.kids[k] IN
              LeafOnlyCarried(parse.result.array[1][k])
                = {kid} \cap LeafOnlyKeys

\* The spec's example holds: with "array: [" in the span the parent loses
\* the child's rows and the child keeps rows = 4.
C8_ExampleHolds ==
  (/\ parse # Idle
   /\ parse.literal = [type |-> "array", extra |-> "none", extraFirst |-> TRUE,
                       withLabel |-> FALSE, container |-> "array",
                       kids |-> <<"rows">>])
    => /\ parse.result.rows = Absent
       /\ parse.result.array[1][1].rows = <<4>>

C8_FailingInput ==
  /\ parse # Idle
  /\ parse.literal = [type |-> "array", extra |-> "rows", extraFirst |-> TRUE,
                      withLabel |-> FALSE, container |-> "none",
                      kids |-> <<>>]
  /\ parse.result.rows = <<4>>
(***************************************************************************)
(* FLOW VALIDATOR                                                          *)
(*                                                                         *)
(* A candidate node is [id, dataName, type, name] (dataName is            *)
(* node.data?.name), a candidate edge is [source, target, sourceHandle,   *)
(* targetHandle, type].  A property the caller left out holds Undefined.  *)
(* A handle is the sequence of its "-"-separated parts, <<>> when absent. *)
(* A message is its fixed wording and the values interpolated into it.    *)
(***************************************************************************)

MaxNodes == 2

MaxEdges == 1

Undefined == "undefined"

\* The store file the server ships with: what the extraction script wrote
\* for a chatflow node and an agentflow node.
FlowDb ==
  insertNode(insertNode(EmptyDb, ParsedNode("chatOpenAI", <<>>)),
             ParsedNode("agentAgentflow", <<>>))

\* ---- candidate graphs ---------------------------------------------------

CandidateNodes ==
  UNION {{[id |-> id, dataName |-> Undefined, type |-> "chatOpenAI",
           name |-> Undefined],
          [id |-> id, dataName |-> "agentAgentflow", type |-> "agentFlow",
           name |-> Undefined],
          [id |-> id, dataName |-> Undefined, type |-> "Missing",
           name |-> Undefined]} : id \in {"n1", "n2"}}
  \cup {[id |-> "n1", dataName |-> Undefined, type |-> Undefined,
         name |-> Undefined],
        [id |-> Undefined, dataName |-> Undefined, type |-> Undefined,
         name |-> "chatOpenAI"]}

\* Handle pairs: none, plain node ids, and the structured form
\* "<node>-output-<name>-<type>" / "<node>-input-<name>-<type>".
HandlePairs ==
  {<<<<>>, <<>>>>,
   <<<<"n1">>, <<"n2">>>>,
   <<<<"n1", "output", "out", "ChatOpenAI">>, <<>>>>,
   <<<<"n1", "output", "out", "ChatOpenAI">>,
     <<"n2", "input", "model", "BaseLanguageModel">>>>,
   <<<<"n1", "output", "out", "Custom">>,
     <<"n2", "input", "model", "BaseChatModel">>>>,
   <<<<"n1", "output", "out", "constructor">>,
     <<"n2", "input", "model", "BaseChatModel">>>>}

EdgeTags == {"agentFlow", "buttonedge", Undefined}

CandidateEdges ==
  {[source |-> "n1", target |-> "n2", sourceHandle |-> h[1],
    targetHandle |-> h[2], type |-> tag] : h \in HandlePairs, tag \in EdgeTags}
  \cup {[source |-> "n1", target |-> "ghost", sourceHandle |-> <<>>,
         targetHandle |-> <<>>, type |-> "buttonedge"],
        [source |-> "ghost", target |-> "n2", sourceHandle |-> <<>>,
         targetHandle |-> <<>>, type |-> "buttonedge"],
        [source |-> Undefined, target |-> "n2", sourceHandle |-> <<>>,
         targetHandle |-> <<>>, type |-> Undefined]}

ListsOf(items, maxLen) == UNION {[1..n -> items] : n \in 0..maxLen}

NodeLists == ListsOf(CandidateNodes, MaxNodes)

\* An edge whose source handle names a type Object.prototype defines.
RaisingEdge ==
  [source |-> "n1", target |-> "n2",
   sourceHandle |-> <<"n1", "output", "out", "constructor">>,
   targetHandle |-> <<"n2", "input", "model", "BaseChatModel">>,
   type |-> "buttonedge"]

\* Edge lists of up to MaxEdges edges, and each of them followed by the
\* raising edge.
EdgeLists ==
  ListsOf(CandidateEdges, MaxEdges)
    \cup {Append(edges, RaisingEdge) :
            edges \in ListsOf(CandidateEdges, MaxEdges)}

\* ---- validateFlow -------------------------------------------------------

Message(msg, args) == [msg |-> msg, args |-> args]

\* node.data?.name || node.type || node.name
NodeNameOf(node) ==
  IF node.dataName # Undefined THEN node.dataName
  ELSE IF node.type # Undefined THEN node.type
  ELSE node.name

\* queryOne(SELECT ... FROM nodes WHERE name = ?): <<row>> or NULL
queryOne(nodeName) ==
  LET results == SelectSeq(db.nodes, LAMBDA row : row.name = nodeName)
  IN IF Len(results) > 0 THEN <<results[1]>> ELSE NULL

\* name?.toLowerCase().includes('chain') || ...includes('agent'), for the
\* names candidate nodes carry.
HasEndpointWord(name) == name \in {"agentAgentflow", "llmChain"}

\* Mutant: an unknown node type is not reported.
ReportMissingNode_Silent(nodeName) == <<>>

\* errors.push(`Node type "${nodeName}" does not exist in Flowise`)
ReportMissingNode(nodeName) ==
  <<Message("Node type does not exist in Flowise", <<nodeName>>)>>

\* What one turn of the for-loop over nodes pushes to errors.
NodeErrors(node) ==
  LET nodeName == NodeNameOf(node) IN
  IF nodeName = Undefined
    THEN <<Message("Node has no name/type specified", <<node.id>>)>>
  ELSE IF queryOne(nodeName) = NULL THEN ReportMissingNode(nodeName)
  ELSE <<>>

\* nodeIds after the loop: the id of every node that has a name (the
\* continue of a nameless node skips nodeIds.add).
NodeIdsOf(candidates) ==
  {candidates[i].id :
     i \in {j \in 1..Len(candidates) : NodeNameOf(candidates[j]) # Undefined}}

\* nodeMap after the loop: per id, the entry written for the last node of
\* that id whose Definition was found.
NodeMapOf(candidates) ==
  LET found == {i \in 1..Len(candidates) :
                  /\ NodeNameOf(candidates[i]) # Undefined
                  /\ queryOne(NodeNameOf(candidates[i])) # NULL}
  IN [id \in {candidates[i].id : i \in found} |->
        LET last   == CHOOSE i \in found :
                        /\ candidates[i].id = id
                        /\ \A j \in found : candidates[j].id = id => j <= i
            dbNode == queryOne(NodeNameOf(candidates[last]))[1]
        IN [node |-> candidates[last], dbInfo |-> dbNode,
            baseClasses |-> dbNode.base_classes]]

\* nodeMap[id]: nodeMap is a plain object, so an id Object.prototype defines
\* finds a truthy value that has no dbInfo and no baseClasses.
NodeMapLookup(nodeMap, id) ==
  IF id \in DOMAIN nodeMap
    THEN [found |-> TRUE, label |-> <<nodeMap[id].dbInfo.label>>,
          is_agentflow |-> <<nodeMap[id].dbInfo.is_agentflow>>,
          baseClasses |-> nodeMap[id].baseClasses]
  ELSE IF id \in ObjectPrototypeKeys
    THEN [found |-> TRUE, label |-> <<>>, is_agentflow |-> <<>>,
          baseClasses |-> <<>>]
  ELSE [found |-> FALSE, label |-> <<>>, is_agentflow |-> <<>>,
        baseClasses |-> <<>>]

\* handle.split(separator), separator being "-output-" or "-input-"
RECURSIVE SplitHandle(_, _, _, _, _)
SplitHandle(handle, word, i, current, parts) ==
  IF i > Len(handle) THEN Append(parts, current)
  ELSE IF handle[i] = word /\ current # <<>> /\ i < Len(handle)
    THEN SplitHandle(handle, word, i + 2, <<handle[i + 1]>>,
                     Append(parts, current))
  ELSE SplitHandle(handle, word, i + 1, Append(current, handle[i]), parts)

\* sourceBaseClasses.some(bc => isTypeCompatible(bc, targetType))
RECURSIVE SomeCompatible(_, _, _)
SomeCompatible(baseClasses, i, targetType) ==
  IF i > Len(baseClasses) THEN "false"
  ELSE LET one == isTypeCompatible(baseClasses[i], targetType) IN
       IF one = "false" THEN SomeCompatible(baseClasses, i + 1, targetType)
       ELSE one

\* The handle check of one edge: "ok", "incompatible" or "TypeError".
HandleCheck(edge, sourceNode) ==
  IF edge.sourceHandle = <<>> \/ edge.targetHandle = <<>> THEN "ok"
  ELSE
    LET sourceHandleParts == SplitHandle(edge.sourceHandle, "output", 1,
                                         <<>>, <<>>)
        targetHandleParts == SplitHandle(edge.targetHandle, "input", 1,
                                         <<>>, <<>>)
    IN
    IF Len(sourceHandleParts) # 2 \/ Len(targetHandleParts) # 2 THEN "ok"
    ELSE
      LET sourceType == sourceHandleParts[2][Len(sourceHandleParts[2])]
          targetType == targetHandleParts[2][Len(targetHandleParts[2])]
          direct     == isTypeCompatible(sourceType, targetType)
      IN
      IF sourceType = "" \/ targetType = "" THEN "ok"
      ELSE IF direct = "true" THEN "ok"
      ELSE IF direct = "TypeError" THEN "TypeError"
      ELSE LET isCompatible == SomeCompatible(sourceNode.baseClasses, 1,
                                              targetType)
           IN IF isCompatible = "true" THEN "ok"
              ELSE IF isCompatible = "TypeError" THEN "TypeError"
              ELSE "incompatible"

\* What one turn of the for-loop over edges does: raise, or push these
\* errors and warnings.
Pushed(errors, warnings) ==
  [threw |-> FALSE, errors |-> errors, warnings |-> warnings]

\* Mutant: a classification mismatch is pushed to errors.
ReportMixedFlow_AsError(message) == Pushed(<<message>>, <<>>)

\* warnings.push(`Mixed flow types: ...`)
ReportMixedFlow(message) == Pushed(<<>>, <<message>>)

FlowKind(isAgentflow) == IF isAgentflow = <<1>> THEN "agentflow" ELSE "chatflow"

\* The body of the for-loop over edges after both endpoints were found in
\* nodeMap.
CheckEdge(edge, sourceNode, targetNode) ==
  LET handles == HandleCheck(edge, sourceNode)
      sourceIsAgentflow == sourceNode.is_agentflow
      targetIsAgentflow == targetNode.is_agentflow
      incompatible ==
        IF handles = "incompatible"
          THEN <<Message("Incompatible edge",
                         <<sourceNode.label,
                           edge.sourceHandle[Len(edge.sourceHandle)],
                           targetNode.label,
                           edge.targetHandle[Len(edge.targetHandle)]>>)>>
          ELSE <<>>
      mixed ==
        IF sourceIsAgentflow # targetIsAgentflow
          THEN ReportMixedFlow(Message("Mixed flow types",
                                       <<FlowKind(sourceIsAgentflow),
                                         FlowKind(targetIsAgentflow)>>))
          ELSE Pushed(<<>>, <<>>)
      agentTag ==
        IF sourceIsAgentflow = <<1>> /\ edge.type # "agentFlow"
          THEN <<Message("Edge from agentflow node should use type: agentFlow",
                         <<edge.source>>)>>
          ELSE <<>>
      chatTag ==
        IF /\ sourceIsAgentflow # <<1>> /\ targetIsAgentflow # <<1>>
           /\ edge.type # "buttonedge"
          THEN <<Message("Edge in chatflow should use type: buttonedge, got",
                         <<edge.type>>)>>
          ELSE <<>>
  IN IF handles = "TypeError"
       THEN [threw |-> TRUE, errors |-> <<>>, warnings |-> <<>>]
       ELSE Pushed(incompatible \o mixed.errors,
                   mixed.warnings \o agentTag \o chatTag)

\* One turn of the for-loop over edges.
EdgeOutcome(edge, nodeIds, nodeMap) ==
  IF edge.source \notin nodeIds
    THEN Pushed(<<Message("Edge references non-existent source node",
                          <<edge.source>>)>>, <<>>)
  ELSE IF edge.target \notin nodeIds
    THEN Pushed(<<Message("Edge references non-existent target node",
                          <<edge.target>>)>>, <<>>)
  ELSE
    LET sourceNode == NodeMapLookup(nodeMap, edge.source)
        targetNode == NodeMapLookup(nodeMap, edge.target)
    IN IF ~sourceNode.found \/ ~targetNode.found THEN Pushed(<<>>, <<>>)
       ELSE CheckEdge(edge, sourceNode, targetNode)

\* The lists pushed turn after turn, joined in order.
RECURSIVE Concat(_, _)
Concat(lists, i) ==
  IF i > Len(lists) THEN <<>> ELSE lists[i] \o Concat(lists, i + 1)

\* Mutant: warnings make the flow invalid as well.
FlowResult_WarningsInvalidate(candidates, edges, errors, warnings) ==
  [threw |-> FALSE, valid |-> Len(errors) = 0 /\ Len(warnings) = 0,
   errors |-> errors, warnings |-> warnings,
   summary |-> [nodeCount |-> Len(candidates), edgeCount |-> Len(edges),
                errorCount |-> Len(errors), warningCount |-> Len(warnings)]]

\* The object validateFlow serialises and returns.
FlowResult(candidates, edges, errors, warnings) ==
  [threw |-> FALSE, valid |-> Len(errors) = 0,
   errors |-> errors, warnings |-> warnings,
   summary |-> [nodeCount |-> Len(candidates), edgeCount |-> Len(edges),
                errorCount |-> Len(errors), warningCount |-> Len(warnings)]]

\* A TypeError raised while an edge is checked ends the call: the turns
\* before it have pushed their entries, no turn after it runs, and nothing
\* is returned.
validateFlow(candidates, edges) ==
  LET nodeIds  == NodeIdsOf(candidates)
      nodeMap  == NodeMapOf(candidates)
      outcomes == [i \in 1..Len(edges) |->
                     EdgeOutcome(edges[i], nodeIds, nodeMap)]
      hasEndpoint ==
        \E i \in 1..Len(candidates) :
          HasEndpointWord(NodeNameOf(candidates[i]))
      errors ==
        Concat([i \in 1..Len(candidates) |-> NodeErrors(candidates[i])], 1)
          \o Concat([i \in 1..Len(edges) |-> outcomes[i].errors], 1)
      warnings ==
        (IF Len(candidates) > 0 /\ ~hasEndpoint
           THEN <<Message("Flow has no endpoint node", <<>>)>>
           ELSE <<>>)
          \o Concat([i \in 1..Len(edges) |-> outcomes[i].warnings], 1)
  IN IF \E i \in 1..Len(edges) : outcomes[i].threw
       THEN [threw |-> TRUE, error |-> "TypeError"]
       ELSE FlowResult(candidates, edges, errors, warnings)

\* main(): the server loads the store file before it serves any tool.
OpenDatabase ==
  /\ db = Idle
  /\ db' = FlowDb
  /\ UNCHANGED <<scan, parse, nodes, resolver, flow, server>>

\* The validate_flow tool: one call of validateFlow on the caller's graph.
CallValidateFlow ==
  /\ db # Idle
  /\ flow = Idle
  /\ \E candidates \in NodeLists, edges \in EdgeLists :
       flow' = [op |-> "validateFlow", nodes |-> candidates, edges |-> edges,
                result |-> validateFlow(candidates, edges)]
  /\ UNCHANGED <<scan, parse, nodes, db, resolver, server>>

NextFlow ==
  \/ OpenDatabase
  \/ CallValidateFlow

\* ---- what the validator is to report ------------------------------------

\* Names of the Definitions the store holds.
StoredNames == {db.nodes[i].name : i \in 1..Len(db.nodes)}

CountWhere(list, Test(_)) == Cardinality({i \in 1..Len(list) : Test(list[i])})

IsMissingError(nodeName, error) ==
  /\ error.msg = "Node type does not exist in Flowise"
  /\ error.args = <<nodeName>>

\* C6: with an empty edge list validateFlow returns, and for every name the
\* errors hold exactly one "does not exist" entry per node carrying that
\* name when the store has no Definition of the name and none when it has
\* one; valid is false whenever some node did not resolve.
C6_OneErrorPerMissingNode ==
  (flow # Idle /\ flow.edges = <<>>)
    => /\ ~flow.result.threw
       /\ \A name \in {NodeNameOf(flow.nodes[i]) : i \in 1..Len(flow.nodes)}
                        \ {Undefined} :
            CountWhere(flow.result.errors,
                       LAMBDA e : IsMissingError(name, e))
              = IF name \in StoredNames THEN 0
                ELSE CountWhere(flow.nodes,
                                LAMBDA n : NodeNameOf(n) = name)
       /\ CountWhere(flow.result.errors,
                     LAMBDA e : e.msg = "Node type does not exist in Flowise")
            = CountWhere(flow.nodes,
                         LAMBDA n : /\ NodeNameOf(n) # Undefined
                                    /\ NodeNameOf(n) \notin StoredNames)
       /\ (\E i \in 1..Len(flow.nodes) :
             NodeNameOf(flow.nodes[i]) \notin StoredNames)
            => flow.result.valid = FALSE
       /\ flow.nodes = <<[id |-> "n1", dataName |-> Undefined,
                          type |-> "Missing", name |-> Undefined]>>
            => /\ Len(flow.result.errors) = 1
               /\ flow.result.valid = FALSE

C6_Witness ==
  /\ flow # Idle
  /\ flow.edges = <<>>
  /\ Len(flow.nodes) = 2
  /\ NodeNameOf(flow.nodes[1]) = "Missing"
  /\ NodeNameOf(flow.nodes[2]) = "chatOpenAI"
  /\ ~flow.result.threw
  /\ Len(flow.result.errors) = 1
  /\ flow.result.valid = FALSE

\* The Definition row of a candidate node, NULL when the store has none.
DefinitionOf(node) ==
  LET rows == {i \in 1..Len(db.nodes) :
                 db.nodes[i].name = NodeNameOf(node)}
  IN IF rows = {} THEN NULL ELSE <<db.nodes[CHOOSE i \in rows : TRUE]>>

\* The declared relation between a handle's output type and input type:
\* equal, or the table lists the input type in the output type's chain.
DeclaredCompatible(sourceType, targetType) ==
  \/ sourceType = targetType
  \/ targetType \in DeclaredChain(sourceType)

IsStructured(handle, word) ==
  /\ Len(handle) = 4
  /\ handle[2] = word
  /\ \A k \in {1, 3, 4} : handle[k] \notin {"output", "input"}

\* Two distinct nodes of differing classification, both resolved, joined by
\* one edge whose handles are in the structured form with compatible types.
MixedCompatiblePair ==
  /\ flow # Idle
  /\ Len(flow.nodes) = 2
  /\ Len(flow.edges) = 1
  /\ LET s == flow.nodes[1]
         t == flow.nodes[2]
         e == flow.edges[1]
     IN /\ s.id # t.id
        /\ {e.source, e.target} = {s.id, t.id}
        /\ e.source # e.target
        /\ DefinitionOf(s) # NULL
        /\ DefinitionOf(t) # NULL
        /\ DefinitionOf(s)[1].is_agentflow # DefinitionOf(t)[1].is_agentflow
        /\ IsStructured(e.sourceHandle, "output")
        /\ IsStructured(e.targetHandle, "input")
        /\ DeclaredCompatible(e.sourceHandle[4], e.targetHandle[4])

\* C7: for two resolved nodes of differing agentflow/chatflow classification
\* joined by an edge with compatible handle types, validateFlow returns no
\* hard error, at least one "Mixed flow types" warning and valid = true;
\* and in no returned result is a "Mixed flow types" entry among the errors.
C7_MixedFlowIsOnlyWarned ==
  /\ MixedCompatiblePair
       => /\ ~flow.result.threw
          /\ flow.result.errors = <<>>
          /\ \E i \in 1..Len(flow.result.warnings) :
               flow.result.warnings[i].msg = "Mixed flow types"
          /\ flow.result.valid = TRUE
  /\ (flow # Idle /\ ~flow.result.threw)
       => \A i \in 1..Len(flow.result.errors) :
            flow.result.errors[i].msg # "Mixed flow types"

C7_Witness ==
  /\ MixedCompatiblePair
  /\ flow.edges[1].sourceHandle[4] = "ChatOpenAI"
  /\ flow.edges[1].targetHandle[4] = "BaseLanguageModel"
  /\ flow.result.valid = TRUE
  /\ Len(flow.result.warnings) >= 1

\* C9: whenever validateFlow returns, valid is true exactly when the errors
\* list is empty, whatever the warnings, and summary.errorCount and
\* summary.warningCount are the lengths of the two returned lists.
C9_ValidIffNoErrors ==
  (flow # Idle /\ ~flow.result.threw)
    => /\ flow.result.valid = (flow.result.errors = <<>>)
       /\ flow.result.summary.errorCount = Len(flow.result.errors)
       /\ flow.result.summary.warningCount = Len(flow.result.warnings)

C9_Witness ==
  /\ flow # Idle
  /\ ~flow.result.threw
  /\ flow.result.errors = <<>>
  /\ Len(flow.result.warnings) >= 2
  /\ flow.result.valid = TRUE
  /\ flow.result.summary.warningCount >= 2

\* C10: for every candidate graph validateFlow returns a result object and
\* never raises.  Violated: a structured source handle whose type is a name
\* Object.prototype defines makes isTypeCompatible raise a TypeError.
C10_NeverRaises ==
  flow # Idle => ~flow.result.threw
\* ---- the scan read from its start position -----------------------------

\* The text the scan reads: everything from startPos on, read as code.
RestFrom(content, startPos) == Substring(content, startPos, Len(content))

\* The position at which the depth opened before startPos is back to zero
\* for the first time, -1 when the text ends before that (an unterminated
\* quoted span hides every bracket after it).
DepthZeroAt(content, startPos, openChar, closeChar) ==
  LET p == TrueClose(RestFrom(content, startPos), 0, openChar, closeChar)
  IN IF p = -1 THEN -1 ELSE startPos + p

\* C11: findMatchingBracket returns -1 exactly when the text ends before the
\* nesting depth is back to zero (an unterminated quoted span swallowing the
\* rest included); otherwise it returns an index p >= startPos at which the
\* closing bracket stands.  The scan makes progress: started at any position
\* before the end it stops at a later one, and skipping a quoted span never
\* moves backwards.
C11_SentinelIffTextEndsFirst ==
  scan.op = "findMatchingBracket"
    => /\ (scan.result = -1)
            = (DepthZeroAt(scan.content, scan.startPos, "{", "}") = -1)
       /\ scan.result = DepthZeroAt(scan.content, scan.startPos, "{", "}")
       /\ scan.result # -1
            => /\ scan.result >= scan.startPos
               /\ scan.result < Len(scan.content)
               /\ CharAt(scan.content, scan.result) = "}"
       /\ \A pos \in scan.startPos..(Len(scan.content) - 1) :
            /\ ScanLoop(scan.content, pos, 1, "{", "}").pos > pos
            /\ \A quote \in {"'", "DQUOTE"} :
                 SkipString(scan.content, pos, quote) >= pos

\* C11 witness: an unterminated quoted span swallows the closing bracket.
C11_Witness ==
  /\ scan.op = "findMatchingBracket"
  /\ scan.result = -1
  /\ \E p \in scan.startPos..(Len(scan.content) - 1) :
       /\ CharAt(scan.content, p) = "}"
       /\ LexState(RestFrom(scan.content, scan.startPos),
                   p - scan.startPos).mode # "code"
  /\ LexState(RestFrom(scan.content, scan.startPos),
              Len(scan.content) - scan.startPos).mode # "code"
\* C12: when the write of one Definition of a batch fails on the unique
\* name, the failure is caught and every Definition whose own write does not
\* fail is in the store once the batch is through, those attempted after the
\* failing one included: its nodes row and the rows of its own fields.
C12_FailedWriteSparesTheOthers ==
  db # Idle =>
    \A i \in 1..Len(nodes) :
      Written(i) =>
        /\ Cardinality({k \in 1..Len(db.nodes) :
                          /\ db.nodes[k].name = nodes[i].name
                          /\ db.nodes[k].label = nodes[i].label
                          /\ db.nodes[k].category = nodes[i].category}) = 1
        /\ {r.input_name : r \in InputRows(nodes[i].name)}
             = {f.name : f \in AllFields(nodes[i].inputs)}

\* C12 witness: the second write fails, the third, attempted after it, is
\* in the store together with the first.
C12_Witness ==
  /\ db # Idle
  /\ Len(nodes) = 3
  /\ Written(1) /\ ~Written(2) /\ Written(3)
  /\ nodes[2].inputs # nodes[1].inputs
  /\ {db.nodes[k].name : k \in 1..Len(db.nodes)}
       = {nodes[1].name, nodes[3].name}

\* The Definitions of the batch whose write did not fail, in batch order.
WrittenNodes ==
  LET kept == SelectSeq([i \in 1..Len(nodes) |-> i], Written)
  IN [k \in 1..Len(kept) |-> nodes[kept[k]]]

RECURSIVE StoreOf(_, _)
StoreOf(batch, k) ==
  IF k = 0 THEN EmptyDb ELSE insertNode(StoreOf(batch, k - 1), batch[k])

\* The store a batch without the later duplicates leaves behind.
StoreWithoutDuplicates ==
  LET written == StoreOf(WrittenNodes, Len(WrittenNodes))
  IN IF db.categories = <<>> THEN written
     ELSE UpdateCategoryCounts(written, CategorySet(WrittenNodes), 1)

StoreTables ==
  {"nodes", "node_credentials", "node_outputs", "node_inputs",
   "input_options", "categories"}

\* C29: when two Definitions of a batch have the same name, the store holds
\* exactly one nodes row of that name, every row of any table for that name
\* comes from the first of them written, and the later duplicate contributes
\* no row to any table: each table is what the batch without the later
\* duplicates leaves behind.
C29_DuplicateContributesNoRow ==
  (db # Idle /\ \E i \in 1..Len(nodes) : ~Written(i)) =>
    /\ \A i \in 1..Len(nodes) :
         Cardinality({k \in 1..Len(db.nodes) :
                        db.nodes[k].name = nodes[i].name}) = 1
    /\ \A table \in StoreTables : db[table] = StoreWithoutDuplicates[table]

\* The node_inputs rows with the same node_name and the same parent_id as r.
Siblings(r) ==
  {s \in Range(db.node_inputs) :
     s.node_name = r.node_name /\ s.parent_id = r.parent_id}

\* C30: in the store after any batch run every node_inputs row r with a
\* non-null parent_id p has exactly one row p, written before it (p < r.id)
\* for the same node_name, and the sort_order values of every set of
\* sibling rows (same node_name, same parent_id) are exactly 0..k-1, each
\* taken once.
C30_ParentsPrecedeAndSiblingsAreNumbered ==
  db # Idle =>
    \A r \in Range(db.node_inputs) :
      /\ r.parent_id # Absent =>
           /\ Cardinality({p \in Range(db.node_inputs) :
                             p.id = r.parent_id[1]}) = 1
           /\ \A p \in Range(db.node_inputs) :
                p.id = r.parent_id[1]
                  => p.id < r.id /\ p.node_name = r.node_name
      /\ {s.sort_order : s \in Siblings(r)}
           = 0..(Cardinality(Siblings(r)) - 1)
      /\ \A s1, s2 \in Siblings(r) :
           s1.sort_order = s2.sort_order => s1 = s2

\* C30 witness: a batch with a later duplicate is through; one row has a parent that has a parent itself, and two rows
\* are siblings under the same parent row.
C30_Witness ==
  /\ db # Idle
  /\ db.categories # <<>>
  /\ \E i \in 1..Len(nodes) : ~Written(i)
  /\ \E r, p \in Range(db.node_inputs) :
       /\ r.parent_id = <<p.id>>
       /\ p.parent_id # Absent
  /\ \E r1, r2 \in Range(db.node_inputs) :
       /\ r1 # r2
       /\ r1.parent_id # Absent
       /\ r1.parent_id = r2.parent_id
       /\ {r1.sort_order, r2.sort_order} = {0, 1}
(***************************************************************************)
(* SCHEMA READER                                                           *)
(*                                                                         *)
(* getNodeSchema rebuilds a Definition from the rows of the store.  An id  *)
(* is the sequence of its "-"-separated parts.                             *)
(***************************************************************************)

\* ORDER BY sort_order (rows of equal sort_order in rowid order)
RECURSIVE OrderBySortOrder(_)
OrderBySortOrder(rows) ==
  IF rows = {} THEN <<>>
  ELSE LET first == CHOOSE r \in rows :
                      \A q \in rows :
                        \/ r.sort_order < q.sort_order
                        \/ r.sort_order = q.sort_order /\ r.id <= q.id
       IN <<first>> \o OrderBySortOrder(rows \ {first})

\* baseClasses.join('|')
RECURSIVE JoinChain(_)
JoinChain(baseClasses) ==
  IF baseClasses = <<>> THEN ""
  ELSE IF Len(baseClasses) = 1 THEN baseClasses[1]
  ELSE baseClasses[1] \o "|" \o JoinChain(Tail(baseClasses))

\* SELECT ... FROM input_options WHERE input_id = ? ORDER BY sort_order
OptionsOfInput(d, inputId) ==
  LET options == OrderBySortOrder({o \in Range(d.input_options) :
                                     o.input_id = inputId})
  IN [k \in 1..Len(options) |->
        [label |-> options[k].option_label, name |-> options[k].option_name]]

\* SELECT * FROM node_inputs WHERE parent_id = ? ORDER BY sort_order
NestedInputs(d, inputId) ==
  OrderBySortOrder({r \in Range(d.node_inputs) : r.parent_id = <<inputId>>})

\* buildInputParam(input, nodeId): an absent options or array list is empty.
RECURSIVE buildInputParam(_, _, _)
buildInputParam(d, input, nodeId) ==
  [name    |-> input.input_name,
   type    |-> input.input_type,
   options |-> OptionsOfInput(d, input.id),
   array   |-> IF input.input_type = "array"
                 THEN [k \in 1..Len(NestedInputs(d, input.id)) |->
                         buildInputParam(d, NestedInputs(d, input.id)[k],
                                         nodeId)]
                 ELSE <<>>,
   id      |-> <<nodeId, "input", input.input_name, input.input_type>>]

\* SELECT * FROM node_inputs WHERE node_name = ? AND parent_id IS NULL
\* ORDER BY sort_order
TopInputs(d, name) ==
  OrderBySortOrder({r \in Range(d.node_inputs) :
                      r.node_name = name /\ r.parent_id = NULL})

\* The output anchor getNodeSchema builds for the node row.
OutputAnchor(node, nodeId) ==
  IF node.is_agentflow = 1
    THEN [id |-> <<nodeId, "output", node.name>>, name |-> node.name]
    ELSE [id |-> <<nodeId, "output", node.name,
                   JoinChain(node.base_classes)>>,
          name |-> node.name]

getNodeSchema(d, name) ==
  LET found == SelectSeq(d.nodes, LAMBDA row : row.name = name) IN
  IF Len(found) = 0 THEN [error |-> TRUE]
  ELSE LET node   == found[1]
           nodeId == name \o "_0"
       IN [error |-> FALSE,
           id |-> nodeId,
           baseClasses |-> node.base_classes,
           inputParams |->
             [k \in 1..Len(TopInputs(d, name)) |->
                buildInputParam(d, TopInputs(d, name)[k], nodeId)],
           outputAnchors |-> <<OutputAnchor(node, nodeId)>>]

\* The get_node_schema tool: one call of getNodeSchema on the store.
CallGetNodeSchema ==
  /\ db # Idle
  /\ server = Idle
  /\ \E name \in NodeNames \cup {"Missing"} :
       server' = [op |-> "getNodeSchema", name |-> name,
                  result |-> getNodeSchema(db, name)]
  /\ UNCHANGED <<scan, parse, nodes, db, resolver, flow>>

NextSchema ==
  \/ InsertNodeWritten
  \/ InsertNodeFailed
  \/ CallGetNodeSchema

\* ---- the schema against the assembled tree ------------------------------

\* The parameters are the fields of the forest: same number, same order,
\* same names and kinds, each with its id, and under every field the
\* parameters of its children.
RECURSIVE SameTree(_, _, _)
SameTree(params, inputs, nodeId) ==
  /\ Len(params) = Len(inputs)
  /\ \A k \in 1..Len(inputs) :
       /\ params[k].name = inputs[k].name
       /\ params[k].type = inputs[k].type
       /\ params[k].id = <<nodeId, "input", inputs[k].name, inputs[k].type>>
       /\ SameTree(params[k].array, inputs[k].array \o inputs[k].tabs,
                   nodeId)

\* C25: for every written Definition, getNodeSchema returns its input
\* fields as a tree of the same shape and sibling order as the assembled
\* tree: top-level fields in declaring order, under every array or tabs
\* field, at any depth, all of its children in declaring order, each field
\* with the id {instanceId}-input-{fieldName}-{fieldType}.  Violated: the
\* children of a tabs field are not returned.
C25_SchemaTreeMirrorsInputTree ==
  (db # Idle /\ server.op = "getNodeSchema") =>
    \A i \in 1..Len(nodes) :
      (Written(i) /\ nodes[i].name = server.name) =>
        /\ ~server.result.error
        /\ SameTree(server.result.inputParams, nodes[i].inputs,
                    server.result.id)

\* ---- the Resolver on names the table does not hold ------------------------

\* C14: isTypeCompatible, getAcceptingInputTypes and getCompatibleOutputTypes
\* return a value and never raise, for any type name; for a name T that is
\* no key of the table, isTypeCompatible(T, R) is true only for R = T and
\* getAcceptingInputTypes(T) is the singleton [T].
\* Violated: for the names Object.prototype defines ("constructor", ...)
\* TYPE_HIERARCHY[T] is an inherited value that is no array, so
\* isTypeCompatible(T, R) raises for R # T and getAcceptingInputTypes(T)
\* returns that value.
C14_ResolverNeverRaises ==
  /\ resolver.op = "isTypeCompatible" =>
       /\ resolver.result \in {"true", "false"}
       /\ (resolver.sourceType \notin DOMAIN TYPE_HIERARCHY) =>
            (resolver.result = "true"
               <=> resolver.targetInputType = resolver.sourceType)
  /\ (/\ resolver.op = "getAcceptingInputTypes"
      /\ resolver.outputType \notin DOMAIN TYPE_HIERARCHY) =>
       resolver.result = <<resolver.outputType>>
  /\ resolver.op = "getCompatibleOutputTypes" =>
       resolver.inputType \in Range(resolver.result)

\* C15: for every type name S, getAcceptingInputTypes(S) is the chain the
\* table holds for S when S is a key and [S] otherwise; every chain of the
\* table includes its own key, so the members of the result are exactly
\* the types T for which isTypeCompatible(S, T) is true.
\* Violated: for a name S that Object.prototype defines, S is no key of the
\* table, yet the result is the inherited value and not [S].
C15_AcceptingTypesAreTheChain ==
  resolver.op = "getAcceptingInputTypes" =>
    LET S == resolver.outputType
        R == resolver.result
    IN /\ R = (IF S \in DOMAIN TYPE_HIERARCHY THEN TYPE_HIERARCHY[S]
               ELSE <<S>>)
       /\ \A k \in DOMAIN TYPE_HIERARCHY : k \in Range(TYPE_HIERARCHY[k])
       /\ \A T \in TypeNames :
            (T \in Range(R)) <=> (isTypeCompatible(S, T) = "true")
(***************************************************************************)
(* COMMENT STRIPPER                                                        *)
(*                                                                         *)
(* "NL" names the line break.  The operators work on any sequence whose    *)
(* elements are compared with single characters, so they serve a text of   *)
(* characters and a unit of lexical tokens alike.                          *)
(***************************************************************************)

MaxStripLen == 5

StripChars == {"/", "*", "NL", "'", "DQUOTE", "BACKSLASH", "a"}

StripTexts == UNION {[1..n -> StripChars] : n \in 0..MaxStripLen}

\* The while inside the string-literal branch: from the position after the
\* opening quote to the position where it exits (every character passed is
\* appended to the result).
RECURSIVE CopyString(_, _, _)
CopyString(content, i, quote) ==
  IF i < Len(content) /\ CharAt(content, i) # quote
    THEN IF CharAt(content, i) = "BACKSLASH"
           THEN IF i + 1 < Len(content)
                  THEN CopyString(content, i + 2, quote)
                  ELSE i + 1
           ELSE CopyString(content, i + 1, quote)
    ELSE i

\* The position after a string literal opened at i (the closing quote is
\* appended when there is one).
StringEnd(content, i) ==
  LET close == CopyString(content, i + 1, CharAt(content, i))
  IN IF close < Len(content) THEN close + 1 ELSE close

\* The while inside the block-comment branch, then i += 2.
RECURSIVE SkipBlock(_, _)
SkipBlock(content, i) ==
  IF /\ i < Len(content) - 1
     /\ ~(CharAt(content, i) = "*" /\ CharAt(content, i + 1) = "/")
    THEN SkipBlock(content, i + 1)
    ELSE i + 2

\* Mutant: a comment opener inside a string literal is honoured.
StartsString_Never(char) == FALSE

StartsString(char) == IsQuote(char)

\* The while inside the line-comment branch.
RECURSIVE SkipLine(_, _)
SkipLine(content, i) ==
  IF i < Len(content) /\ CharAt(content, i) # "NL"
    THEN SkipLine(content, i + 1)
    ELSE i

\* The position at or after i of the next quote mark or slash, or the
\* length: up to there every turn of the outer while takes its last branch.
PlainEnd(content, i) ==
  LET marks == {j \in i..(Len(content) - 1) :
                  IsQuote(CharAt(content, j)) \/ CharAt(content, j) = "/"}
  IN IF marks = {} THEN Len(content)
     ELSE CHOOSE j \in marks : \A k \in marks : j <= k

\* The outer while of stripBlockComments, from position i on; a run of
\* turns that take the last branch is one step.
RECURSIVE StripLoop(_, _)
StripLoop(content, i) ==
  IF i >= Len(content) THEN <<>>
  ELSE IF StartsString(CharAt(content, i))
    THEN Substring(content, i, StringEnd(content, i))
           \o StripLoop(content, StringEnd(content, i))
  ELSE IF CharAt(content, i) = "/" /\ CharAt(content, i + 1) = "*"
    THEN StripLoop(content, SkipBlock(content, i + 2))
  ELSE IF CharAt(content, i) = "/" /\ CharAt(content, i + 1) = "/"
    THEN StripLoop(content, SkipLine(content, i))
  ELSE Substring(content, i, PlainEnd(content, i + 1))
         \o StripLoop(content, PlainEnd(content, i + 1))

stripBlockComments(content) == StripLoop(content, 0)

\* parseNodeFile strips the raw text of every unit before extraction.
CallStripBlockComments ==
  /\ scan = Idle
  /\ \E content \in StripTexts :
       scan' = [op |-> "stripBlockComments", content |-> content,
                result |-> stripBlockComments(content)]
  /\ UNCHANGED <<parse, nodes, db, resolver, flow, server>>

NextStrip ==
  \/ CallStripBlockComments
(***************************************************************************)
(* SOURCE SCANNER: ONE UNIT                                                *)
(*                                                                         *)
(* A unit is the token sequence of a node source file.  The comment marks  *)
(* / and * and the line break are tokens of their own, so the comment      *)
(* stripper reads a unit as it reads a text.                               *)
(***************************************************************************)

\* ---- the units handed to parseNodeFile -----------------------------------

\* The tokens of one assignment of the constructor, by the way it is written.
AssignText(field, variant) ==
  CASE variant = "none" -> <<>>
    [] field = "name" /\ variant = "literal" ->
         <<"this.name", "=", "'", "myNode", "'">>
    [] field = "name" /\ variant = "commented" ->
         <<"/", "*", "this.name", "=", "'", "myNode", "'", "*", "/">>
    [] field = "label" /\ variant = "literal" ->
         <<"this.label", "=", "'", "My", "Node", "'">>
    [] field = "label" /\ variant = "empty" ->
         <<"this.label", "=", "'", "'">>
    [] field = "version" /\ variant = "number" ->
         <<"this.version", "=", "4">>
    [] field = "version" /\ variant = "malformed" ->
         <<"this.version", "=", "LATEST">>
    [] field = "type" /\ variant = "literal" ->
         <<"this.type", "=", "'", "MyType", "'">>
    [] field = "category" /\ variant = "malformed" ->
         <<"this.category", "=", "CATEGORY">>
    [] field = "category" ->
         <<"this.category", "=", "'", variant, "'">>
    [] field = "baseClasses" /\ variant = "list" ->
         <<"this.baseClasses", "=", "[", "this.type", ",",
           "'", "BaseType", "'", "]">>
    [] field = "baseClasses" /\ variant = "empty" ->
         <<"this.baseClasses", "=", "[", "]">>
    [] field = "baseClasses" /\ variant = "unclosed" ->
         <<"this.baseClasses", "=", "[", "'", "BaseType", "'", ";">>
    [] field = "inputs" /\ variant = "list" ->
         <<"this.inputs", "=", "[",
           "{", "label", ":", "'", "Model", "'", ",",
                "name", ":", "'", "model", "'", ",",
                "type", ":", "'", "string", "'", "}", ",",
           "{", "label", ":", "'", "Nameless", "'", "}", "]">>
    [] field = "inputs" /\ variant = "unclosed" ->
         <<"this.inputs", "=", "[",
           "{", "name", ":", "'", "model", "'", ",",
                "type", ":", "'", "string", "'", "}", ";">>
    [] field = "outputs" /\ variant = "list" ->
         <<"this.outputs", "=", "[",
           "{", "label", ":", "'", "Out", "'", ",",
                "name", ":", "'", "out", "'", ",",
                "baseClasses", ":", "[", "this.type", ",",
                                         "'", "OutType", "'", "]", "}", ",",
           "{", "label", ":", "'", "Plain", "'", ",",
                "name", ":", "'", "plain", "'", ",",
                "hidden", ":", "true", "}", "]">>
    [] field = "outputs" /\ variant = "nameless" ->
         <<"this.outputs", "=", "[",
           "{", "label", ":", "'", "Out", "'", "}", "]">>
    [] field = "outputs" /\ variant = "empty" ->
         <<"this.outputs", "=", "[", "]">>
    [] field = "outputs" /\ variant = "unclosed" ->
         <<"this.outputs", "=", "[",
           "{", "label", ":", "'", "Out", "'", ",",
                "name", ":", "'", "out", "'", "}", ";">>
    [] field = "credential" /\ variant = "object" ->
         <<"this.credential", "=", "{",
           "label", ":", "'", "Connect", "'", ",",
           "credentialNames", ":", "[", "'", "myApi", "'", "]", "}">>
    [] field = "credential" /\ variant = "unclosed" ->
         <<"this.credential", "=", "{", "label", ":", "'", "Connect", "'">>

\* class MyNode implements INode { constructor() { ...assignments... } }
UnitText(u) ==
  (IF u.sentinel THEN <<"class", "MyNode", "implements INode", "(", ")">>
   ELSE <<"class", "MyNode", "(", ")">>)
    \o AssignText("label", u.label) \o AssignText("name", u.name)
    \o AssignText("version", u.version) \o AssignText("type", u.type)
    \o AssignText("category", u.category)
    \o AssignText("inputs", u.inputs) \o AssignText("outputs", u.outputs)
    \o AssignText("credential", u.credential)
    \o AssignText("baseClasses", u.baseClasses)

\* The units of the batch: every combination of the scalar assignments and
\* of the base classes, with an inputs array, an outputs array or a
\* credential object (one of the three at most), and one file that is no
\* node class.
Units ==
  {u \in [sentinel : {TRUE}, name : {"none", "literal", "commented"},
          label : {"none", "literal", "empty"},
          version : {"none", "number", "malformed"},
          type : {"none", "literal"},
          category : {"none", "malformed", "Chat Models", "Agent Flows"},
          baseClasses : {"none", "list", "empty", "unclosed"},
          inputs : {"none", "list", "unclosed"},
          outputs : {"none", "list", "nameless", "empty", "unclosed"},
          credential : {"none", "object", "unclosed"}] :
     \/ u.inputs = "none" /\ u.outputs = "none"
     \/ u.inputs = "none" /\ u.credential = "none"
     \/ u.outputs = "none" /\ u.credential = "none"}
  \cup
  {[sentinel |-> FALSE, name |-> "literal", label |-> "literal",
    version |-> "none", type |-> "none", category |-> "none",
    baseClasses |-> "none", inputs |-> "none", outputs |-> "list",
    credential |-> "none"]}

\* ---- parseOutputObject ---------------------------------------------------

\* <<content>> of the object opened at or after startPos, <<>> for null
extractObjectContent(content, startPos) ==
  LET openPos == IndexOf(content, "{", startPos) IN
  IF openPos = -1 THEN Absent
  ELSE LET closePos == findMatchingBracket(content, openPos + 1, "{", "}")
       IN IF closePos = -1 THEN Absent
          ELSE <<Substring(content, openPos + 1, closePos)>>

\* content.match(/key\s*=\s*[\[{]/): index of the leftmost match or -1
MatchAssign(content, key, open) ==
  FirstOf({i \in 0..(Len(content) - 1) :
             /\ CharAt(content, i) = key
             /\ CharAt(content, i + 1) = "="
             /\ CharAt(content, i + 2) = open})

\* content.match(/quote([^quotes]+)quote/g) with the quote marks removed
\* from every match: the matches from position from on, left to right.
RECURSIVE QuotedStrings(_, _)
QuotedStrings(content, from) ==
  LET open == QuoteFrom(content, from) IN
  IF open = -1 THEN <<>>
  ELSE LET close == QuoteFrom(content, open + 1) IN
       IF close = -1 THEN <<>>
       ELSE IF close = open + 1 THEN QuotedStrings(content, open + 1)
       ELSE <<Substring(content, open + 1, close)>>
              \o QuotedStrings(content, close + 1)

Includes(content, token) == \E i \in 1..Len(content) : content[i] = token

\* The classes parseOutputObject collects from a baseClasses array.
OutputClasses(arrayContent) ==
  (IF Includes(arrayContent, "this.type") THEN <<<<"__THIS_TYPE__">>>>
   ELSE <<>>)
    \o QuotedStrings(arrayContent, 0)
    \o (IF Includes(arrayContent, "getBaseClasses")
          THEN <<<<"__GET_BASE_CLASSES__">>>> ELSE <<>>)

parseOutputObject(objContent) ==
  LET name  == extractStringValue(objContent, "name")
      label == extractStringValue(objContent, "label")
      baseClassMatch == MatchArrayKey(objContent, "baseClasses")
      result == extractArrayContent(objContent, baseClassMatch)
  IN
  IF name = Absent \/ label = Absent THEN ParsedNull
  ELSE [isNull      |-> FALSE,
        name        |-> name,
        label       |-> label,
        description |-> extractStringValue(objContent, "description"),
        hidden      |-> extractBooleanValue(objContent, "hidden"),
        isAnchor    |-> extractBooleanValue(objContent, "isAnchor"),
        baseClasses |->
          IF baseClassMatch # -1 /\ result # Absent
               /\ OutputClasses(result[1]) # <<>>
            THEN <<OutputClasses(result[1])>>
            ELSE Absent]

\* ---- parseNodeFile -------------------------------------------------------

\* value || fallback for a string value
OrElse(value, fallback) == IF value = Absent THEN fallback ELSE value

\* The base-class chain of the node.
NodeBaseClasses(content, type) ==
  LET baseClassMatch == MatchAssign(content, "this.baseClasses", "[")
      result == extractArrayContent(content, baseClassMatch)
      pushed ==
        IF baseClassMatch # -1 /\ result # Absent
          THEN (IF Includes(result[1], "this.type") THEN <<type>> ELSE <<>>)
                 \o QuotedStrings(result[1], 0)
          ELSE <<>>
  IN IF Len(pushed) = 0 THEN <<type>> ELSE pushed

\* The top-level inputs of the node.
NodeInputs(content) ==
  LET inputsMatch == MatchAssign(content, "this.inputs", "[")
      result == extractArrayContent(content, inputsMatch)
  IN IF inputsMatch # -1 /\ result # Absent
       THEN LET inputObjects == splitArrayIntoObjects(result[1])
                parsed == [k \in 1..Len(inputObjects) |->
                             parseInputObject(inputObjects[k])]
            IN SelectSeq(parsed, LAMBDA p : ~p.isNull)
       ELSE <<>>

\* One parsed output with its placeholders resolved at node level.
ResolveOutput(parsed, type) ==
  IF ~parsed.isNull /\ parsed.baseClasses # Absent
    THEN LET mapped == [k \in 1..Len(parsed.baseClasses[1]) |->
                          IF parsed.baseClasses[1][k] = <<"__THIS_TYPE__">>
                            THEN type ELSE parsed.baseClasses[1][k]]
         IN [parsed EXCEPT !.baseClasses =
               <<SelectSeq(mapped,
                           LAMBDA c : c # <<"__GET_BASE_CLASSES__">>)>>]
    ELSE parsed

\* Mutant: a unit without parsed outputs is left without any.
DefaultOutputs_None(name, label, baseClasses) == <<>>

\* The default output pushed when node.outputs is empty.
DefaultOutputs(name, label, baseClasses) ==
  <<[isNull |-> FALSE, name |-> name, label |-> label,
     description |-> Absent, hidden |-> Absent, isAnchor |-> Absent,
     baseClasses |-> <<baseClasses>>]>>

\* The outputs of the node.
NodeOutputs(content, name, label, type, baseClasses) ==
  LET outputsMatch == MatchAssign(content, "this.outputs", "[")
      result == extractArrayContent(content, outputsMatch)
      outputs ==
        IF outputsMatch # -1 /\ result # Absent
          THEN LET outputObjects == splitArrayIntoObjects(result[1])
                   parsed == [k \in 1..Len(outputObjects) |->
                                ResolveOutput(
                                  parseOutputObject(outputObjects[k]), type)]
               IN SelectSeq(parsed, LAMBDA o : ~o.isNull)
          ELSE <<>>
  IN IF Len(outputs) = 0 THEN DefaultOutputs(name, label, baseClasses)
     ELSE outputs

\* <<credential>> of the node, <<>> when it has none
NodeCredential(content) ==
  LET credMatch == MatchAssign(content, "this.credential", "{")
      result == extractObjectContent(content, credMatch)
  IN IF credMatch # -1 /\ result # Absent
       THEN LET credNames == MatchArrayKey(result[1], "credentialNames")
                namesResult == extractArrayContent(result[1], credNames)
            IN <<[label |-> OrElse(extractStringValue(result[1], "label"),
                                   <<"Connect Credential">>),
                  name  |-> OrElse(extractStringValue(result[1], "name"),
                                   <<"credential">>),
                  type  |-> OrElse(extractStringValue(result[1], "type"),
                                   <<"credential">>),
                  credentialNames |->
                    IF credNames # -1 /\ namesResult # Absent
                         /\ QuotedStrings(namesResult[1], 0) # <<>>
                      THEN <<QuotedStrings(namesResult[1], 0)>>
                      ELSE Absent]>>
       ELSE Absent

\* Mutant: a unit without a version assignment is rejected.
RequiredFieldsMissing_Version(content) ==
  \/ extractStringValue(content, "this.name") = Absent
  \/ extractStringValue(content, "this.label") = Absent
  \/ extractNumberValue(content, "this.version") = Absent

\* if (!name || !label) return null
RequiredFieldsMissing(content) ==
  \/ extractStringValue(content, "this.name") = Absent
  \/ extractStringValue(content, "this.label") = Absent

\* parseNodeFile after the sentinel test, on the stripped content.
ParseContent(content) ==
  IF RequiredFieldsMissing(content) THEN ParsedNull
  ELSE
    LET name    == extractStringValue(content, "this.name")
        label   == extractStringValue(content, "this.label")
        version == extractNumberValue(content, "this.version")
        type    == OrElse(extractStringValue(content, "this.type"), name)
        baseClasses == NodeBaseClasses(content, type)
    IN [isNull      |-> FALSE,
        name        |-> name,
        label       |-> label,
        version     |-> IF version = Absent \/ version = <<0>>
                          THEN 1 ELSE version[1],
        type        |-> type,
        icon        |-> OrElse(extractStringValue(content, "this.icon"),
                               Absent),
        category    |-> OrElse(extractStringValue(content, "this.category"),
                               <<"Unknown">>),
        description |->
          OrElse(extractStringValue(content, "this.description"), Absent),
        baseClasses |-> baseClasses,
        inputs      |-> NodeInputs(content),
        outputs     |-> NodeOutputs(content, name, label, type, baseClasses),
        credential  |-> NodeCredential(content)]

\* parseNodeFile(filePath) on the text read from the file; no statement of
\* the try block throws on a text, so the catch is never entered.
parseNodeFile(rawContent) ==
  IF ~Includes(rawContent, "implements INode") THEN ParsedNull
  ELSE CHOOSE node \in {ParseContent(content) :
                          content \in {stripBlockComments(rawContent)}} : TRUE

\* main(): parseNodeFile on one of the files found.
CallParseNodeFile ==
  /\ parse = Idle
  /\ \E u \in Units :
       parse' = [op |-> "parseNodeFile", unit |-> u,
                 result |-> parseNodeFile(UnitText(u))]
  /\ UNCHANGED <<scan, nodes, db, resolver, flow, server>>

\* ---- from the parsed node to the store -----------------------------------

\* A string value as the store holds it: its words, one blank between two.
RECURSIVE Joined(_)
Joined(value) ==
  IF value = Absent THEN ""
  ELSE IF Len(value) = 1 THEN value[1]
  ELSE value[1] \o " " \o Joined(Tail(value))

\* ParsedInput[] as insertInputs reads it: an absent list is empty.
RECURSIVE AssembledInputs(_)
AssembledInputs(inputs) ==
  [k \in 1..Len(inputs) |->
     [name    |-> Joined(inputs[k].name),
      type    |-> Joined(inputs[k].type),
      options |-> IF inputs[k].options = Absent THEN <<>>
                  ELSE [j \in 1..Len(inputs[k].options[1]) |->
                          [label |-> Joined(inputs[k].options[1][j].label),
                           name  |-> Joined(inputs[k].options[1][j].name)]],
      array   |-> IF inputs[k].array = Absent THEN <<>>
                  ELSE AssembledInputs(inputs[k].array[1]),
      tabs    |-> IF inputs[k].tabs = Absent THEN <<>>
                  ELSE AssembledInputs(inputs[k].tabs[1])]]

\* The ParsedNode as insertNode reads it.
Assembled(node) ==
  [name        |-> Joined(node.name),
   label       |-> Joined(node.label),
   type        |-> Joined(node.type),
   category    |-> Joined(node.category),
   baseClasses |-> [k \in 1..Len(node.baseClasses) |->
                      Joined(node.baseClasses[k])],
   credential  |-> node.credential # Absent,
   outputs     |->
     [k \in 1..Len(node.outputs) |->
        [name  |-> Joined(node.outputs[k].name),
         label |-> Joined(node.outputs[k].label),
         baseClasses |->
           IF node.outputs[k].baseClasses = Absent THEN NULL
           ELSE <<[j \in 1..Len(node.outputs[k].baseClasses[1]) |->
                     Joined(node.outputs[k].baseClasses[1][j])]>>]],
   inputs      |-> AssembledInputs(node.inputs)]

\* main(): the node parsed is pushed to the list and written to the freshly
\* created store.
InsertParsedNode ==
  /\ parse # Idle /\ parse.op = "parseNodeFile"
  /\ ~parse.result.isNull
  /\ db = Idle
  /\ nodes' = <<Assembled(parse.result)>>
  /\ db' = insertNode(EmptyDb, Assembled(parse.result))
  /\ UNCHANGED <<scan, parse, resolver, flow, server>>

NextNode ==
  \/ CallParseNodeFile
  \/ InsertParsedNode

\* ---- parseNodeFile: what is rejected and what is defaulted ---------------

\* The unit parsed holds a name and a label assignment (of a non-empty
\* string literal, outside every comment).
IdentityAssigned(u) == u.name = "literal" /\ u.label = "literal"

\* What the node carries for the optional assignments of the unit parsed.
ExpectedType(u) ==
  IF u.type = "literal" THEN <<"MyType">> ELSE <<"myNode">>

ExpectedBaseClasses(u) ==
  IF u.baseClasses = "list" THEN <<ExpectedType(u), <<"BaseType">>>>
  ELSE <<ExpectedType(u)>>

\* C13: for a unit that carries the sentinel 'implements INode',
\* parseNodeFile returns null if and only if the name or the label
\* assignment is absent; an absent or malformed version, type, category,
\* base-class array, inputs array, outputs array or credential object never
\* rejects the unit: the field takes its default or is left out.
C13_OnlyNameAndLabelAreRequired ==
  (parse # Idle /\ parse.op = "parseNodeFile" /\ parse.unit.sentinel) =>
    LET u == parse.unit
        node == parse.result
    IN /\ node.isNull <=> ~IdentityAssigned(u)
       /\ ~node.isNull =>
            /\ node.name = <<"myNode">> /\ node.label = <<"My", "Node">>
            /\ node.version = (IF u.version = "number" THEN 4 ELSE 1)
            /\ node.type = ExpectedType(u)
            /\ node.category =
                 (IF u.category \in {"none", "malformed"}
                    THEN <<"Unknown">> ELSE <<u.category>>)
            /\ node.baseClasses = ExpectedBaseClasses(u)
            /\ Len(node.inputs) = (IF u.inputs = "list" THEN 1 ELSE 0)
            /\ Len(node.outputs) = (IF u.outputs = "list" THEN 2 ELSE 1)
            /\ node.credential # Absent <=> u.credential = "object"

C13_Witness ==
  /\ parse # Idle /\ parse.op = "parseNodeFile"
  /\ parse.unit.sentinel
  /\ parse.unit.version = "malformed" /\ parse.unit.category = "malformed"
  /\ parse.unit.type = "none"
  /\ parse.unit.baseClasses = "unclosed" /\ parse.unit.outputs = "unclosed"
  /\ ~parse.result.isNull
  /\ parse.result.version = 1
  /\ parse.result.baseClasses = <<<<"myNode">>>>

\* ---- the outputs of an assembled node ------------------------------------

\* The unit parsed yields no output of its own: no this.outputs array, an
\* empty one, or one from which no output can be read.
NoOutputDeclared(u) == u.outputs # "list"

\* C16: every assembled node has at least one output, in the ParsedNode and
\* in the node_outputs rows written for it; when the unit declares none
\* there is exactly one, whose name, label and base-class chain are the
\* node's own name, label and base-class chain.
C16_DefaultOutputMirrorsTheNode ==
  (parse # Idle /\ parse.op = "parseNodeFile" /\ ~parse.result.isNull) =>
    LET node == parse.result IN
    /\ Len(node.outputs) >= 1
    /\ NoOutputDeclared(parse.unit) =>
         /\ Len(node.outputs) = 1
         /\ node.outputs[1].name = node.name
         /\ node.outputs[1].label = node.label
         /\ node.outputs[1].baseClasses = <<node.baseClasses>>
    /\ db # Idle =>
         /\ Len(db.node_outputs) = Len(node.outputs)
         /\ \A k \in 1..Len(db.node_outputs) :
              db.node_outputs[k].node_name = db.nodes[1].name
         /\ NoOutputDeclared(parse.unit) =>
              /\ db.node_outputs[1].output_name = db.nodes[1].name
              /\ db.node_outputs[1].output_label = db.nodes[1].label
              /\ db.node_outputs[1].base_classes = db.nodes[1].base_classes

C16_Witness ==
  /\ parse # Idle /\ parse.op = "parseNodeFile"
  /\ parse.unit.outputs = "none" /\ parse.unit.baseClasses = "list"
  /\ db # Idle
  /\ Len(db.node_outputs) = 1
  /\ db.node_outputs[1].output_name = "myNode"
  /\ db.node_outputs[1].base_classes = <<"MyType", "BaseType">>
(***************************************************************************)
(* FROM THE FIELD EXTRACTOR TO THE STORE                                   *)
(***************************************************************************)

\* parseNodeFile pushes the parsed input to node.inputs and main() writes
\* the node to the freshly created store.
InsertParsedInput ==
  /\ parse.op = "parseInputObject"
  /\ ~parse.result.isNull
  /\ db = Idle
  /\ LET node == ParsedNode("chatOpenAI", AssembledInputs(<<parse.result>>))
     IN /\ nodes' = <<node>>
        /\ db' = insertNode(EmptyDb, node)
  /\ UNCHANGED <<scan, parse, resolver, flow, server>>

NextTree ==
  \/ CallParseInputObject
  \/ InsertParsedInput

\* The node_inputs row of the id, as a set of at most one row.
InputRowOfId(id) == {r \in Range(db.node_inputs) : r.id = id}

\* C24: in the store written from the extracted fields, every node_inputs
\* row with a non-null parent_id has a parent row whose input_type is
\* 'array' or 'tabs', and every input_options row belongs to an input row
\* whose input_type is neither 'array' nor 'tabs'.
C24_OnlyStructuralOwnChildrenOnlyLeavesOwnOptions ==
  db # Idle =>
    /\ \A r \in Range(db.node_inputs) :
         r.parent_id # NULL =>
           \E p \in InputRowOfId(r.parent_id[1]) :
             p.input_type \in {"array", "tabs"}
    /\ \A o \in Range(db.input_options) :
         \E r \in InputRowOfId(o.input_id) :
           r.input_type \notin {"array", "tabs"}

\* A tabs field whose second child declares an option list: the children
\* hang under the tabs row and the options under the child's row.
C24_Witness ==
  /\ db # Idle
  /\ parse.op = "parseInputObject"
  /\ parse.literal.type = "tabs"
  /\ parse.literal.container = "tabs"
  /\ parse.literal.kids = <<"none", "options">>
  /\ Len(db.node_inputs) = 3
  /\ db.node_inputs[1].input_type = "tabs"
  /\ db.node_inputs[3].parent_id = <<1>>
  /\ Len(db.input_options) = 1
  /\ db.input_options[1].input_id = 3

\* ---- what a text means, comments included --------------------------------

\* The lexical state before character i: in code, inside a span opened by
\* quote q ("quoted", or "escape" right after a backslash in it), inside a
\* block comment ("opening" between its / and *, "block", "closing" between
\* its * and /), or inside a line comment.
RECURSIVE CommentState(_, _)
CommentState(content, i) ==
  IF i = 0 THEN [mode |-> "code", q |-> ""]
  ELSE LET before == CommentState(content, i - 1)
           c      == CharAt(content, i - 1)
           next   == CharAt(content, i)
       IN CASE before.mode = "code" ->
                 IF IsQuote(c) THEN [mode |-> "quoted", q |-> c]
                 ELSE IF c = "/" /\ next = "*" THEN [mode |-> "opening", q |-> ""]
                 ELSE IF c = "/" /\ next = "/" THEN [mode |-> "line", q |-> ""]
                 ELSE before
            [] before.mode = "quoted" ->
                 IF c = "BACKSLASH" THEN [mode |-> "escape", q |-> before.q]
                 ELSE IF c = before.q THEN [mode |-> "code", q |-> ""]
                 ELSE before
            [] before.mode = "escape" -> [mode |-> "quoted", q |-> before.q]
            [] before.mode = "opening" -> [mode |-> "block", q |-> ""]
            [] before.mode = "block" ->
                 IF c = "*" /\ next = "/" THEN [mode |-> "closing", q |-> ""]
                 ELSE before
            [] before.mode = "closing" -> [mode |-> "code", q |-> ""]
            [] before.mode = "line" ->
                 IF next = "NL" THEN [mode |-> "code", q |-> ""] ELSE before

\* Character i belongs to a comment: it opens one in code, or stands inside
\* one (the line break that ends a line comment does not).
InComment(content, i) ==
  LET state == CommentState(content, i) IN
  \/ state.mode \in {"opening", "block", "closing", "line"}
  \/ /\ state.mode = "code"
     /\ CharAt(content, i) = "/"
     /\ CharAt(content, i + 1) \in {"*", "/"}

\* The text without the characters of its comments.
RECURSIVE WithoutComments(_, _)
WithoutComments(content, i) ==
  IF i >= Len(content) THEN <<>>
  ELSE (IF InComment(content, i) THEN <<>> ELSE <<CharAt(content, i)>>)
         \o WithoutComments(content, i + 1)

\* C17: stripBlockComments returns its input without every block comment
\* and every line comment (up to, not including, the line break) that
\* starts outside a quoted span; a quoted span is copied unchanged, also
\* when it holds // or /*, and a quote mark inside a comment opens no span.
C17_CommentsRemovedStringsKept ==
  (scan # Idle /\ scan.op = "stripBlockComments") =>
    /\ scan.result = WithoutComments(scan.content, 0)
    /\ (\A i \in 0..(Len(scan.content) - 1) :
          CommentState(scan.content, i).mode \in {"code", "quoted", "escape"}
            /\ ~InComment(scan.content, i)) => scan.result = scan.content

C17_Witness ==
  /\ scan # Idle /\ scan.op = "stripBlockComments"
  /\ scan.content = <<"'", "/", "*", "'", "a">>
  /\ scan.result = scan.content

\* ---- edges whose endpoints were not accepted -----------------------------

\* Ids of the nodes accepted in the node pass: named, and found in the store.
AcceptedIds(candidates) ==
  {candidates[i].id :
     i \in {j \in 1..Len(candidates) :
              /\ NodeNameOf(candidates[j]) # Undefined
              /\ NodeNameOf(candidates[j]) \in StoredNames}}

\* The result holds a non-existent-endpoint error for the edge.
HasEndpointError(result, edge) ==
  \E k \in 1..Len(result.errors) :
    \/ result.errors[k] =
         Message("Edge references non-existent source node", <<edge.source>>)
    \/ result.errors[k] =
         Message("Edge references non-existent target node", <<edge.target>>)

\* C20: for every edge whose source or target is not the id of a node
\* accepted in the node pass, validateFlow records an error for that edge.
\* Violated: nodeIds also takes the id of a named node whose Definition was
\* not found, so an edge to or from such a node passes both existence
\* checks and is then skipped without any entry.
C20_EdgeOffAcceptedNodesIsAnError ==
  (flow # Idle /\ ~flow.result.threw) =>
    \A k \in 1..Len(flow.edges) :
      (\/ flow.edges[k].source \notin AcceptedIds(flow.nodes)
       \/ flow.edges[k].target \notin AcceptedIds(flow.nodes))
        => HasEndpointError(flow.result, flow.edges[k])
\* ---- edges between resolved nodes ---------------------------------------

\* Positions of the candidate nodes carrying the id.
NodesOfId(id) == {i \in 1..Len(flow.nodes) : flow.nodes[i].id = id}

\* The id names a candidate node and every node of that id has a Definition.
Resolved(id) ==
  /\ NodesOfId(id) # {}
  /\ \A i \in NodesOfId(id) : DefinitionOf(flow.nodes[i]) # NULL

\* The Definition row of the last candidate node carrying the id.
DefinitionOfId(id) ==
  DefinitionOf(flow.nodes[CHOOSE i \in NodesOfId(id) :
                            \A j \in NodesOfId(id) : j <= i])[1]

\* Both endpoints resolved and both handles in the structured form.
StructuredResolvedEdge(edge) ==
  /\ Resolved(edge.source)
  /\ Resolved(edge.target)
  /\ IsStructured(edge.sourceHandle, "output")
  /\ IsStructured(edge.targetHandle, "input")

\* The call returned and its errors hold the incompatible-edge entry of the
\* edge.
HasIncompatibleError(result, edge) ==
  /\ ~result.threw
  /\ \E j \in 1..Len(result.errors) :
       result.errors[j] =
         Message("Incompatible edge",
                 <<<<DefinitionOfId(edge.source).label>>, edge.sourceHandle[4],
                   <<DefinitionOfId(edge.target).label>>,
                   edge.targetHandle[4]>>)

\* Neither the source type token nor any member of the source Definition's
\* stored chain is compatible with the target type token.
NoTypeFits(edge) ==
  LET chain == DefinitionOfId(edge.source).base_classes IN
  /\ isTypeCompatible(edge.sourceHandle[4], edge.targetHandle[4]) = "false"
  /\ \A i \in 1..Len(chain) :
       isTypeCompatible(chain[i], edge.targetHandle[4]) # "true"

\* C21: for every edge between two resolved nodes whose handles are in the
\* structured form, validateFlow records an incompatible-edge error exactly
\* when isTypeCompatible of the two rightmost type tokens is false and no
\* member of the source Definition's stored chain is compatible with the
\* target token.  Violated: when a later edge makes isTypeCompatible raise,
\* validateFlow raises and the error of the earlier edge is never reported.
C21_IncompatibleIffNoTypeFits ==
  flow # Idle =>
    \A k \in 1..Len(flow.edges) :
      StructuredResolvedEdge(flow.edges[k]) =>
        (HasIncompatibleError(flow.result, flow.edges[k])
           <=> NoTypeFits(flow.edges[k]))

\* Both endpoints are agentflow Definitions, or both are chatflow ones.
SameClassification(edge) ==
  DefinitionOfId(edge.source).is_agentflow
    = DefinitionOfId(edge.target).is_agentflow

\* 'agentFlow' for agentflow endpoints, 'buttonedge' for chatflow ones.
ExpectedTag(edge) ==
  IF DefinitionOfId(edge.source).is_agentflow = 1 THEN "agentFlow"
  ELSE "buttonedge"

IsTagMessage(message) ==
  message.msg \in {"Edge from agentflow node should use type: agentFlow",
                   "Edge in chatflow should use type: buttonedge, got"}

\* The call returned and its warnings hold the tag entry of the edge.
HasTagWarning(result, edge) ==
  /\ ~result.threw
  /\ \E j \in 1..Len(result.warnings) :
       \/ result.warnings[j] =
            Message("Edge from agentflow node should use type: agentFlow",
                    <<edge.source>>)
       \/ result.warnings[j] =
            Message("Edge in chatflow should use type: buttonedge, got",
                    <<edge.type>>)

\* C22: for every edge between two resolved nodes of one classification
\* whose type tag differs from the tag expected for that classification,
\* validateFlow records a warning for the edge; and no returned result has a
\* tag-mismatch entry among its errors.  Violated: a structured source
\* handle naming a type Object.prototype defines makes validateFlow raise
\* before the tag is compared, and nothing is reported.
C22_TagMismatchIsWarned ==
  flow # Idle =>
    /\ \A k \in 1..Len(flow.edges) :
         (/\ Resolved(flow.edges[k].source)
          /\ Resolved(flow.edges[k].target)
          /\ SameClassification(flow.edges[k])
          /\ flow.edges[k].type # ExpectedTag(flow.edges[k]))
           => HasTagWarning(flow.result, flow.edges[k])
    /\ ~flow.result.threw =>
         \A j \in 1..Len(flow.result.errors) :
           ~IsTagMessage(flow.result.errors[j])
(***************************************************************************)
(* FROM THE SCHEMA READER TO THE FLOW VALIDATOR                            *)
(*                                                                         *)
(* A client instantiates two Definitions from their schemas and joins the  *)
(* output anchor of the first to an input of the second.                   *)
(***************************************************************************)

\* Chains the source Definition may be stored with.
SourceChains ==
  {<<"ChatOpenAI", "BaseChatModel">>, <<"Calculator">>,
   <<"CustomModel", "BaseChatModel">>}

\* Declared types of the inputs of the target Definition.
AnchorTypes == {"BaseChatModel", "BaseLanguageModel", "Tool", "string"}

AnchorField(name, type, kids) ==
  [name |-> name, type |-> type, options |-> <<>>, array |-> kids,
   tabs |-> <<>>]

\* One or two top-level inputs, or one input nested in an array field.
AnchorInputs ==
  {<<AnchorField("in1", t, <<>>)>> : t \in AnchorTypes}
    \cup {<<AnchorField("in1", t[1], <<>>), AnchorField("in2", t[2], <<>>)>> :
            t \in AnchorTypes \X AnchorTypes}
    \cup {<<AnchorField("list", "array", <<AnchorField("in1", t, <<>>)>>)>> :
            t \in AnchorTypes}

\* main(): the extraction script writes a chat model and a chain that takes
\* inputs.
WriteAnchorNodes ==
  /\ db = Idle
  /\ server = Idle
  /\ \E chain \in SourceChains, inputs \in AnchorInputs :
       LET source == [ParsedNode("chatOpenAI", <<>>)
                        EXCEPT !.baseClasses = chain]
           target == ParsedNode("llmChain", inputs)
       IN /\ nodes' = <<source, target>>
          /\ db' = insertNode(insertNode(EmptyDb, source), target)
  /\ UNCHANGED <<scan, parse, resolver, flow, server>>

\* Every parameter of a schema, at any depth.
RECURSIVE AllParams(_)
AllParams(params) ==
  IF params = <<>> THEN {}
  ELSE {Head(params)} \cup AllParams(Head(params).array)
         \cup AllParams(Tail(params))

\* node_template of getNodeSchema as a node of a flow.
TemplateNode(schema, name) ==
  [id |-> schema.id, dataName |-> name, type |-> "customNode",
   name |-> Undefined]

\* The edge from the output anchor of one schema to a parameter of another.
SchemaEdge(source, target, param) ==
  [source |-> source.id, target |-> target.id,
   sourceHandle |-> source.outputAnchors[1].id,
   targetHandle |-> param.id, type |-> "buttonedge"]

\* get_node_schema for both Definitions, then validate_flow on the two
\* instances and the edge between them, alone or followed by an edge whose
\* source handle names a type Object.prototype defines.
ValidateSchemaEdge ==
  /\ db # Idle
  /\ flow = Idle
  /\ LET source == getNodeSchema(db, "chatOpenAI")
         target == getNodeSchema(db, "llmChain")
     IN \E param \in AllParams(target.inputParams), followed \in BOOLEAN :
          LET candidates == <<TemplateNode(source, "chatOpenAI"),
                              TemplateNode(target, "llmChain")>>
              edge  == SchemaEdge(source, target, param)
              edges == IF followed
                         THEN <<edge, [edge EXCEPT
                                         !.sourceHandle[4] = "constructor"]>>
                         ELSE <<edge>>
          IN flow' = [op |-> "validateFlow", nodes |-> candidates,
                      edges |-> edges, sourceName |-> "chatOpenAI",
                      inputType |-> param.type,
                      result |-> validateFlow(candidates, edges)]
  /\ UNCHANGED <<scan, parse, nodes, db, resolver, server>>

NextRound ==
  \/ WriteAnchorNodes
  \/ ValidateSchemaEdge

\* The chain the store holds for the Definition.
StoredChain(name) ==
  (CHOOSE row \in Range(db.nodes) : row.name = name).base_classes

\* C28: for two chatflow Definitions S and T of the store, T with an input
\* of declared type t, the edge from the output-anchor id getNodeSchema
\* produces for S to the input id it produces for that input of T gets no
\* incompatible-edge error from validateFlow if t is a member of S's stored
\* chain, and gets one if no member of that chain is compatible with t.
\* Violated: when another edge of the flow makes isTypeCompatible raise,
\* validateFlow raises and the error is never reported.
C28_SchemaHandlesAreValidated ==
  flow.op = "validateFlow" =>
    LET chain == StoredChain(flow.sourceName)
        edge  == flow.edges[1]
    IN /\ (\E k \in 1..Len(chain) : chain[k] = flow.inputType)
            => ~HasIncompatibleError(flow.result, edge)
       /\ (\A k \in 1..Len(chain) :
             isTypeCompatible(chain[k], flow.inputType) # "true")
            => HasIncompatibleError(flow.result, edge)
(***************************************************************************)
(* BASE-CLASS ENRICHMENT                                                   *)
(*                                                                         *)
(* A template is the list of its nodes, a template node [name,            *)
(* baseClasses]: name is node.data?.name (Undefined when absent),          *)
(* baseClasses is node.data?.baseClasses, <<>> when absent or empty.  The  *)
(* baseClassesMap is a function from the names it holds to their chains.   *)
(***************************************************************************)

MaxTemplates == 3

Chains == {<<>>, <<"A">>, <<"A", "B">>, <<"A", "C">>, <<"A", "B", "C">>}

TemplateNodes == [name : {"n1", "n2", Undefined}, baseClasses : Chains]

\* Templates of one node, and one template of two nodes.
Templates ==
  {<<node>> : node \in TemplateNodes}
    \cup {<<[name |-> "n2", baseClasses |-> <<"A", "B">>],
            [name |-> "n1", baseClasses |-> <<"A", "C">>]>>}

TemplateLists == ListsOf(Templates, MaxTemplates)

\* What parseNodeFile extracted statically.
ExtractedNodes ==
  {<<[name |-> "n1", baseClasses |-> chain],
     [name |-> "n2", baseClasses |-> <<"A">>]>> : chain \in Chains}

\* Mutant: a chain of equal length replaces the one held.
Longer_OrEqual(baseClasses, existing) == Len(baseClasses) >= Len(existing)

\* baseClasses.length > existing.length
Longer(baseClasses, existing) == Len(baseClasses) > Len(existing)

\* baseClassesMap.set(nodeName, baseClasses)
MapSet(map, nodeName, baseClasses) ==
  [n \in DOMAIN map \cup {nodeName} |->
     IF n = nodeName THEN baseClasses ELSE map[n]]

\* One turn of the inner loop of extractBaseClassesFromTemplates.
KeepLongest(map, node) ==
  IF node.name # Undefined /\ Len(node.baseClasses) > 0
    THEN IF node.name \notin DOMAIN map
           THEN MapSet(map, node.name, node.baseClasses)
         ELSE IF Longer(node.baseClasses, map[node.name])
           THEN MapSet(map, node.name, node.baseClasses)
         ELSE map
    ELSE map

\* The nodes of the templates in the order the two loops visit them.
RECURSIVE VisitOrder(_, _)
VisitOrder(templates, t) ==
  IF t > Len(templates) THEN <<>>
  ELSE templates[t] \o VisitOrder(templates, t + 1)

\* The map after the first i visited nodes.
RECURSIVE MapAfter(_, _)
MapAfter(visited, i) ==
  IF i = 0 THEN <<>>
  ELSE KeepLongest(MapAfter(visited, i - 1), visited[i])

extractBaseClassesFromTemplates(templates) ==
  MapAfter(VisitOrder(templates, 1), Len(VisitOrder(templates, 1)))

\* enrichNodesWithBaseClasses(nodes, baseClassesMap): the nodes afterwards.
enrichNodesWithBaseClasses(extracted, baseClassesMap) ==
  [k \in 1..Len(extracted) |->
     IF /\ extracted[k].name \in DOMAIN baseClassesMap
        /\ Longer(baseClassesMap[extracted[k].name], extracted[k].baseClasses)
       THEN [extracted[k] EXCEPT
               !.baseClasses = baseClassesMap[extracted[k].name]]
       ELSE extracted[k]]

\* main(): the node files are parsed.
ExtractNodes ==
  /\ nodes = <<>>
  /\ scan = Idle
  /\ nodes' \in ExtractedNodes
  /\ UNCHANGED <<scan, parse, db, resolver, flow, server>>

\* main(): the templates are read and the nodes enriched from them.
EnrichNodes ==
  /\ nodes # <<>>
  /\ scan = Idle
  /\ \E templates \in TemplateLists :
       /\ scan' = [op |-> "enrichNodesWithBaseClasses",
                   templates |-> templates, extracted |-> nodes]
       /\ nodes' = enrichNodesWithBaseClasses(
                     nodes, extractBaseClassesFromTemplates(templates))
  /\ UNCHANGED <<parse, db, resolver, flow, server>>

NextEnrich ==
  \/ ExtractNodes
  \/ EnrichNodes

\* ---- the enriched chains ------------------------------------------------

\* The chains the templates hold for the name.
ObservedChains(templates, name) ==
  {node.baseClasses :
     node \in {n \in Range(VisitOrder(templates, 1)) :
                 n.name = name /\ Len(n.baseClasses) > 0}}

\* C27: after enrichment, whatever templates were read and in whatever
\* order, the chain of each Definition is one of its static chain and the
\* chains observed for its name in the templates, and none of them is
\* longer; the static chain is kept unless a strictly longer template
\* chain exists, so the chain is never shorter than the static one.
C27_LongestObservedChainWins ==
  scan.op = "enrichNodesWithBaseClasses" =>
    \A k \in 1..Len(nodes) :
      LET static   == scan.extracted[k].baseClasses
          observed == ObservedChains(scan.templates, nodes[k].name)
          chain    == nodes[k].baseClasses
      IN /\ nodes[k].name = scan.extracted[k].name
         /\ chain \in observed \cup {static}
         /\ \A c \in observed \cup {static} : Len(c) <= Len(chain)
         /\ (\A c \in observed : Len(c) <= Len(static)) => chain = static
         /\ Len(chain) >= Len(static)

\* The longest chain is read first and a shorter one after it: the longest
\* stays.
C27_Witness ==
  /\ scan.op = "enrichNodesWithBaseClasses"
  /\ Len(scan.templates) = 3
  /\ scan.templates[1] = <<[name |-> "n1", baseClasses |-> <<"A", "B", "C">>]>>
  /\ scan.templates[2] = <<[name |-> "n1", baseClasses |-> <<"A", "B">>]>>
  /\ scan.extracted[1].baseClasses = <<"A">>
  /\ nodes[1].baseClasses = <<"A", "B", "C">>
\* ---- option lists --------------------------------------------------------

SelectionKinds == {<<"options">>, <<"multiOptions">>, <<"asyncOptions">>}

StructuralKinds == {<<"array">>, <<"tabs">>}

\* The field name written in the k-th child span of a generated literal.
KidName(k) == <<"c" \o ToString(k)>>

\* The parsed field carries an option list holding one Option per child
\* span of the literal, in source order.
OneOptionPerSpan(literal, field) ==
  /\ Len(field.options[1]) = Len(literal.kids)
  /\ \A k \in 1..Len(literal.kids) : field.options[1][k].name = KidName(k)

HoldsOptionsArray(literal) ==
  \/ literal.container = "options"
  \/ /\ literal.container # "none"
     /\ \E k \in 1..Len(literal.kids) : literal.kids[k] = "options"

\* The child spans of the literal's own options array in which a label is
\* found: the span declares one, or an option nested in it does.
LabelledSpans(literal) ==
  {k \in 1..Len(literal.kids) :
     literal.withLabel \/ literal.kids[k] = "options"}

\* The k-th smallest member of a set of positions.
Nth(positions, k) ==
  CHOOSE p \in positions : Cardinality({q \in positions : q < p}) = k - 1

OwnValue(key) ==
  IF key = "description" THEN <<"about", "x">> ELSE <<TRUE>>

\* The value the k-th child declares for the key.
KidValue(key, k) ==
  IF key = "description" THEN <<"about", "c" \o ToString(k)>> ELSE <<FALSE>>

\* The value of the first textual occurrence of the key in the span of the
\* literal: the outer field's own when it is written before the children
\* (or there are none), else that of the first child declaring the key,
\* else the outer field's own written after the children, else none.
FirstOccurrence(literal, key) ==
  LET declaring == {k \in 1..Len(literal.kids) : literal.kids[k] = key} IN
  IF literal.extra = key /\ literal.extraFirst THEN OwnValue(key)
  ELSE IF declaring # {} THEN KidValue(key, Nth(declaring, 1))
  ELSE IF literal.extra = key THEN OwnValue(key)
  ELSE Absent

\* C26: for the scalar keys outside the discard list (description,
\* optional) the parsed field carries the value of the first textual
\* occurrence of the key anywhere in its span, child literals included: a
\* field that does not declare the key before its children is given the
\* value of its first child that declares one.
C26_FirstOccurrenceInSpanWins ==
  (parse # Idle /\ parse.op = "parseInputObject" /\ ~parse.result.isNull) =>
    /\ parse.result.description = FirstOccurrence(parse.literal, "description")
    /\ parse.result.optional = FirstOccurrence(parse.literal, "optional")

\* A tabs field without a description of its own whose second child has
\* one: the field is given the child's description.
C26_Witness ==
  /\ parse # Idle /\ parse.op = "parseInputObject"
  /\ parse.literal.type = "tabs"
  /\ parse.literal.container = "tabs"
  /\ parse.literal.extra = "none"
  /\ parse.literal.kids = <<"none", "description">>
  /\ parse.result.description = <<"about", "c2">>
  /\ parse.result.tabs[1][2].description = <<"about", "c2">>
(***************************************************************************)
(* SERVER: STARTUP AND REQUEST HANDLERS                                    *)
(*                                                                         *)
(* The candidate paths of the store file are numbered in the order         *)
(* findDatabasePath tries them.  A SQL statement is the table it selects   *)
(* from.                                                                   *)
(***************************************************************************)

\* Requests a serving process answers in one behaviour.
MaxRequests == 2

\* possiblePaths
PathOrder == <<"dist/../data", "dist/../../data", "cwd/data">>

\* findDatabasePath(): the first candidate path that exists, or the Error.
findDatabasePath(existing) ==
  LET hits == {i \in 1..Len(PathOrder) : PathOrder[i] \in existing} IN
  IF hits = {} THEN [threw |-> TRUE, error |-> "Database not found"]
  ELSE [threw |-> FALSE,
        path |-> PathOrder[CHOOSE i \in hits : \A j \in hits : i <= j]]

\* new SQL.Database(fs.readFileSync(dbPath)): the store the file holds (an
\* older build under the working directory holds one Definition only).
StoreAt(dbPath) ==
  IF dbPath = "cwd/data"
    THEN insertNode(EmptyDb, ParsedNode("chatOpenAI", <<>>))
    ELSE FlowDb

\* loadNodesData(): nodes.json when one of its candidate paths exists,
\* otherwise the list stays empty.
loadNodesData(nodesFileFound) ==
  IF nodesFileFound
    THEN <<ParsedNode("chatOpenAI", <<>>), ParsedNode("agentAgentflow", <<>>)>>
    ELSE <<>>

\* Mutant: main() goes on when no store file was found.
StartupPhase_GoesOn(found) == "loaded"

\* main() up to server.connect: the Error of findDatabasePath rejects
\* main(), whose catch logs it.
StartupPhase(found) == IF found.threw THEN "aborted" ELSE "loaded"

\* main(): initSqlJs, findDatabasePath, readFileSync, new SQL.Database,
\* loadNodesData.
StartMain ==
  /\ server = Idle
  /\ \E existing \in SUBSET Range(PathOrder), nodesFileFound \in BOOLEAN :
       LET found == findDatabasePath(existing) IN
       /\ db' = IF found.threw THEN db ELSE StoreAt(found.path)
       /\ server' = [phase |-> StartupPhase(found), existing |-> existing,
                     found |-> found,
                     nodesFileFound |-> nodesFileFound,
                     nodesData |-> IF found.threw THEN <<>>
                                   ELSE loadNodesData(nodesFileFound),
                     answered |-> 0, response |-> Idle]
  /\ UNCHANGED <<scan, parse, nodes, resolver, flow>>

\* main(): await server.connect(transport).
ConnectTransport ==
  /\ server # Idle /\ server.phase = "loaded"
  /\ server' = [server EXCEPT !.phase = "serving"]
  /\ UNCHANGED <<scan, parse, nodes, db, resolver, flow>>

\* ---- request handlers -----------------------------------------------------

ToolNames ==
  {"get_version", "get_usage_guide", "list_categories", "list_nodes",
   "get_node_schema", "search_nodes", "list_templates", "get_template",
   "find_compatible_nodes", "validate_flow", "generate_flow_skeleton",
   "flowise_test_connection", "flowise_list_chatflows",
   "flowise_get_chatflow", "flowise_create_chatflow",
   "flowise_update_chatflow", "flowise_delete_chatflow", "no_such_tool"}

\* The statements a tool implementation passes to query / queryOne.
ToolStatements(name) ==
  CASE name = "list_categories" -> <<"categories">>
    [] name \in {"list_nodes", "search_nodes", "validate_flow"} -> <<"nodes">>
    [] name = "get_node_schema" ->
         <<"nodes", "node_credentials", "node_inputs", "input_options",
           "node_inputs">>
    [] name \in {"list_templates", "get_template"} -> <<"templates">>
    [] name = "find_compatible_nodes" -> <<"nodes", "node_inputs", "nodes">>
    [] OTHER -> <<>>

\* Mutant: a statement empties the table it names.
AfterQuery_Emptied(d, table) ==
  IF table \in DOMAIN d THEN [d EXCEPT ![table] = <<>>] ELSE d

\* query(sql, params): prepare, bind, step and free of a SELECT; the
\* database is what it was.
AfterQuery(d, table) == d

RECURSIVE AfterQueries(_, _, _)
AfterQueries(d, statements, i) ==
  IF i > Len(statements) THEN d
  ELSE AfterQueries(AfterQuery(d, statements[i]), statements, i + 1)

\* Whether the tool handler answers with isError: an unknown tool and a
\* raised error are caught; validateFlow returns or raises; a Flowise API
\* call succeeds or fails.
ToolErrors(name) ==
  CASE name = "no_such_tool" -> {TRUE}
    [] name \in {"validate_flow", "flowise_list_chatflows",
                 "flowise_get_chatflow", "flowise_create_chatflow",
                 "flowise_update_chatflow", "flowise_delete_chatflow"} ->
         BOOLEAN
    [] OTHER -> {FALSE}

\* The request was answered: the response is kept, the count goes up.
Answered(response) ==
  [server EXCEPT !.response = response, !.answered = @ + 1]

\* CallToolRequestSchema handler
HandleCallTool ==
  /\ server # Idle /\ server.phase = "serving"
  /\ server.answered < MaxRequests
  /\ \E name \in ToolNames :
       \E isError \in ToolErrors(name) :
         /\ db' = AfterQueries(db, ToolStatements(name), 1)
         /\ server' = Answered([request |-> "tools/call", name |-> name,
                                isError |-> isError])
  /\ UNCHANGED <<scan, parse, nodes, resolver, flow>>

\* ReadResourceRequestSchema handler: listCategories, listNodes or
\* listTemplates, or the Error for an unknown uri.
HandleReadResource ==
  /\ server # Idle /\ server.phase = "serving"
  /\ server.answered < MaxRequests
  /\ \E uri \in {"flowise://categories", "flowise://nodes",
                 "flowise://templates", "flowise://other"} :
       LET tool == CASE uri = "flowise://categories" -> "list_categories"
                     [] uri = "flowise://nodes" -> "list_nodes"
                     [] uri = "flowise://templates" -> "list_templates"
                     [] OTHER -> "no_such_tool"
       IN /\ db' = AfterQueries(db, ToolStatements(tool), 1)
          /\ server' = Answered([request |-> "resources/read", name |-> uri,
                                 isError |-> tool = "no_such_tool"])
  /\ UNCHANGED <<scan, parse, nodes, resolver, flow>>

\* GetPromptRequestSchema handler and the three list handlers: fixed texts.
HandleStatic ==
  /\ server # Idle /\ server.phase = "serving"
  /\ server.answered < MaxRequests
  /\ \E request \in {"tools/list", "resources/list", "prompts/list",
                     "prompts/get"} :
       \E name \in (IF request = "prompts/get"
                      THEN {"build_chatflow", "build_agentflow", "other"}
                      ELSE {""}) :
         server' = Answered([request |-> request, name |-> name,
                             isError |-> name = "other"])
  /\ UNCHANGED <<scan, parse, nodes, db, resolver, flow>>

NextServer ==
  \/ StartMain
  \/ ConnectTransport
  \/ HandleCallTool
  \/ HandleReadResource
  \/ HandleStatic

\* ---- what a serving process holds ----------------------------------------

\* C18: after startup, whatever tool calls, resource reads and prompt
\* requests were answered, the loaded store and the in-memory node list are
\* what startup loaded: no request handler writes to them.
C18_HandlersLeaveStoreAsLoaded ==
  (server # Idle /\ server.phase = "serving") =>
    /\ db = StoreAt(server.found.path)
    /\ server.nodesData = loadNodesData(server.nodesFileFound)

C18_Witness ==
  /\ server # Idle /\ server.phase = "serving"
  /\ server.answered = MaxRequests
  /\ server.response.name = "get_node_schema"
  /\ db = FlowDb

\* C19: the transport is connected, and a request answered, only after the
\* store file was found and loaded; when no candidate path holds a store
\* file, startup aborts with the error and the transport is never
\* connected.
C19_ServesOnlyALoadedStore ==
  server # Idle =>
    /\ (server.phase = "serving" \/ server.answered > 0) =>
         /\ server.existing # {}
         /\ db # Idle /\ db = StoreAt(server.found.path)
         /\ server.found.path \in server.existing
    /\ server.existing = {} =>
         /\ server.phase = "aborted" /\ server.found.threw
         /\ db = Idle /\ server.answered = 0

C19_Witness ==
  /\ server # Idle
  /\ server.existing = {}
  /\ server.phase = "aborted"
  /\ db = Idle
(***************************************************************************)
(* SPECIFICATIONS                                                          *)
(***************************************************************************)

Init ==
  /\ scan = Idle
  /\ parse = Idle
  /\ nodes = <<>>
  /\ db = Idle
  /\ resolver = Idle
  /\ flow = Idle
  /\ server = Idle

SpecTypes == Init /\ [][NextTypes]_vars

SpecScan == Init /\ [][NextScan]_vars

SpecStore == Init /\ [][NextStore]_vars

SpecParse == Init /\ [][NextParse]_vars

SpecFlow == Init /\ [][NextFlow]_vars

SpecStrip == Init /\ [][NextStrip]_vars

SpecNode == Init /\ [][NextNode]_vars

SpecServer == Init /\ [][NextServer]_vars

SpecTree == Init /\ [][NextTree]_vars

SpecSchema == Init /\ [][NextSchema]_vars

SpecEnrich == Init /\ [][NextEnrich]_vars

SpecRound == Init /\ [][NextRound]_vars

=============================================================================
